---- MODULE Spec2Model ----
(***************************************************************************)
(* A model of the PCjs address bus (modules/devices/bus.js) and of the     *)
(* X86 segment registers (X86Seg).  The bus owns a table of Memory blocks; *)
(* every access is routed through a block's readData/writeData slot, and   *)
(* traps are layered on a block by swapping those slots.                   *)
(***************************************************************************)
EXTENDS Integers, Sequences, FiniteSets, TLC

(***************************************************************************)
(* Bounds of the model.                                                    *)
(***************************************************************************)
\* log2 of the bus block size (the configuration's blockSize is 2^BlockShift)
BlockShift == 1
\* largest number of outstanding trap references, over all blocks
MaxTraps == 2

\* the value JavaScript yields for undefined (or NaN) in a numeric position
Undefined == -1
\* the name of an unset function slot
Unset == "undefined"

(***************************************************************************)
(* Bus configuration, derived as the constructor derives it.               *)
(***************************************************************************)
blockSize == 2 ^ BlockShift
\* the bus modelled has two block indexes
addrWidth == BlockShift + 1
addrTotal == 2 ^ addrWidth
addrLimit == addrTotal - 1
blockTotal == addrTotal \div blockSize
blockLimit == blockSize - 1
dataWidth == 8

Addrs == 0 .. addrLimit
Indexes == 0 .. (blockTotal - 1)
Offsets == 0 .. blockLimit
Vals == {0, 1}
Funcs == {"f", "g"}
\* the addresses traps are asked for: the last byte of every block
TrapAddrs == {a \in Addrs : a % blockSize = blockSize - 1}
\* the addresses accessed: the first and the last byte of every block
AccessAddrs == {a \in Addrs : a % blockSize \in {0, blockSize - 1}}

(***************************************************************************)
(* Memory blocks.  Objects are named by ids: NoneId is the block the bus   *)
(* constructor shares over every index, NewId(i) the block addBlocks       *)
(* allocates for index i, DonorSame and DonorDiff two blocks a device      *)
(* hands to addBlocks (of the bus's block size, and of another size).      *)
(***************************************************************************)
TYPE ==
    [NONE |-> 0,
     ROM |-> 1,
     RAM |-> 2]

NoBlock == -1
NoneId == 0
NewId(iBlock) == iBlock + 1
DonorSame == blockTotal + 1
DonorDiff == blockTotal + 2
Ids == 0 .. DonorDiff

\* the value a NONE block reads as: all ones of the data width
noneValue == 2 ^ dataWidth - 1

\* values of a block as the array `values`: what lies beyond is undefined
PadValues(vals) ==
    [o \in Offsets |-> IF o + 1 <= Len(vals) THEN vals[o + 1] ELSE Undefined]

\* new Memory(idMachine, idDevice, {type, addr, size, values})
Memory(type, addr, size, vals) ==
    [ type |-> type, addr |-> addr, size |-> size, values |-> PadValues(vals),
      readData |-> IF type = TYPE.NONE THEN "readNone" ELSE "readValue",
      writeData |-> IF type = TYPE.RAM THEN "writeValue" ELSE "writeNone",
      readPrev |-> Unset, readTrap |-> Unset, nReadTraps |-> 0,
      writePrev |-> Unset, writeTrap |-> Unset, nWriteTraps |-> 0 ]

Zeros(n) == [i \in 1 .. n |-> 0]

\* the contents of the donor of another size: a ROM image of two blocks
DonorImage == [i \in 1 .. (2 * blockSize) |-> i % 2]

\* Array.prototype.slice(from, to) on a 1-based sequence holding a 0-based array
Slice(vals, from, to) ==
    LET hi == IF to < Len(vals) THEN to ELSE Len(vals)
    IN  IF from >= hi THEN << >> ELSE [i \in 1 .. (hi - from) |-> vals[from + i]]

Absent == [ type |-> TYPE.NONE, addr |-> Undefined, size |-> 0,
            values |-> PadValues(<< >>),
            readData |-> Unset, writeData |-> Unset,
            readPrev |-> Unset, readTrap |-> Unset, nReadTraps |-> 0,
            writePrev |-> Unset, writeTrap |-> Unset, nWriteTraps |-> 0 ]

VARIABLES
    blocks,     \* Bus.blocks: block index -> id of the Memory object there
    mem,        \* the Memory objects, by id
    busOp,      \* the last bus operation and its arguments
    busRet,     \* what the last bus operation returned
    trapLog     \* the trap callbacks the last operation invoked, in order

busVars == << blocks, mem, busOp, busRet, trapLog >>

(***************************************************************************)
(* Bus.addBlocks(addr, size, type, block): the loop of bus.js, one         *)
(* iteration per block index; `block` is the id of the donor or NoBlock.   *)
(***************************************************************************)
RECURSIVE addBlocksLoop(_, _, _, _, _, _, _, _)
addBlocksLoop(bs, ms, addrNext, sizeLeft, offset, iBlock, type, block) ==
    IF ~(sizeLeft > 0 /\ iBlock < blockTotal)
    THEN [blocks |-> bs, mem |-> ms, ret |-> TRUE]
    ELSE
      LET addrBlock == iBlock * blockSize
          sizeFull == blockSize - (addrNext - addrBlock)
          sizeBlock == IF sizeFull > sizeLeft THEN sizeLeft ELSE sizeFull
          blockExisting == bs[iBlock]
      IN  IF blockExisting /= NoBlock /\ ms[blockExisting].type /= TYPE.NONE
          THEN [blocks |-> bs, mem |-> ms, ret |-> FALSE]
          ELSE
            LET fresh == block = NoBlock \/ ms[block].size /= blockSize
                blockNew == IF fresh THEN NewId(iBlock) ELSE block
                vals == IF block = NoBlock
                        THEN Zeros(sizeBlock)
                        ELSE Slice(DonorImage, offset, offset + sizeBlock)
                ms2 == IF fresh
                       THEN [ms EXCEPT ![blockNew] = Memory(type, addrNext, sizeBlock, vals)]
                       ELSE ms
            IN  addBlocksLoop([bs EXCEPT ![iBlock] = blockNew], ms2,
                              addrBlock + blockSize, sizeLeft - sizeBlock,
                              offset + sizeBlock, iBlock + 1, type, block)

addBlocks(bs, ms, addr, size, type, block) ==
    addBlocksLoop(bs, ms, addr, size, 0, addr \div blockSize, type, block)

(***************************************************************************)
(* The Bus constructor: an empty table, then addBlocks of the one shared   *)
(* NONE block over every block-sized region.                               *)
(***************************************************************************)
RECURSIVE constructorLoop(_, _, _)
constructorLoop(bs, ms, addr) ==
    IF ~(addr < addrTotal) THEN [blocks |-> bs, mem |-> ms]
    ELSE LET r == addBlocks(bs, ms, addr, blockSize, TYPE.NONE, NoneId)
         IN  constructorLoop(r.blocks, r.mem, addr + blockSize)

DonorObjects ==
    [id \in Ids |->
        IF id = NoneId THEN Memory(TYPE.NONE, Undefined, blockSize, << >>)
        ELSE IF id = DonorSame THEN Memory(TYPE.RAM, 0, blockSize, Zeros(blockSize))
        ELSE IF id = DonorDiff THEN Memory(TYPE.ROM, 0, 2 * blockSize, DonorImage)
        ELSE Absent]

constructor == constructorLoop([i \in Indexes |-> NoBlock], DonorObjects, 0)

(***************************************************************************)
(* Bus.enumBlocks(type, func): the blocks passed to func, in order.        *)
(***************************************************************************)
BitAnd2(x, y) ==
    (IF x % 2 = 1 /\ y % 2 = 1 THEN 1 ELSE 0)
    + (IF (x \div 2) % 2 = 1 /\ (y \div 2) % 2 = 1 THEN 2 ELSE 0)

RECURSIVE enumBlocksLoop(_, _, _, _, _)
enumBlocksLoop(bs, ms, type, iBlock, called) ==
    IF ~(iBlock < blockTotal) THEN called
    ELSE LET block == bs[iBlock]
         IN  IF block = NoBlock \/ BitAnd2(ms[block].type, type) = 0
             THEN enumBlocksLoop(bs, ms, type, iBlock + 1, called)
             ELSE enumBlocksLoop(bs, ms, type, iBlock + 1, Append(called, block))

enumBlocks(bs, ms, type) ==
    LET called == enumBlocksLoop(bs, ms, type, 0, << >>)
    IN  [called |-> called, ret |-> Len(called)]

(***************************************************************************)
(* The access functions a block's readData/writeData slots can hold.       *)
(* readNone/readValue/writeNone/writeValue are Memory's own; the wrappers  *)
(* are the closures trapRead and trapWrite build around the block.         *)
(***************************************************************************)
\* block.addr + offset, in JavaScript arithmetic (undefined + n is NaN)
addrPlus(addr, offset) == IF addr = Undefined THEN Undefined ELSE addr + offset

readDirect(m, fn, offset) ==
    IF fn = "readValue" THEN m.values[offset] ELSE noneValue

writeDirect(m, fn, offset, value) ==
    IF fn = "writeValue" THEN [m EXCEPT !.values[offset] = value] ELSE m

\* what a callback sees stored at the offset while it runs
Peek(m, offset) ==
    readDirect(m, IF m.readData = "readTrap" THEN m.readPrev ELSE m.readData, offset)

\* the closure readTrap of trapRead: read through readPrev, then the callback
readTrap(m, offset) ==
    LET value == readDirect(m, m.readPrev, offset)
    IN  [ value |-> value,
          log |-> << [kind |-> "read", fn |-> m.readTrap,
                      addr |-> addrPlus(m.addr, offset), value |-> value,
                      seen |-> value] >> ]

\* writeTrap with the two statements swapped: the store, then the callback
writeTrap_StoreFirst(m, offset, value) ==
    LET m2 == writeDirect(m, m.writePrev, offset, value)
    IN  [ m |-> m2,
          log |-> << [kind |-> "write", fn |-> m.writeTrap,
                      addr |-> addrPlus(m.addr, offset), value |-> value,
                      seen |-> Peek(m2, offset)] >> ]

\* the closure writeTrap of trapWrite: the callback, then write through writePrev
writeTrap(m, offset, value) ==
    [ m |-> writeDirect(m, m.writePrev, offset, value),
      log |-> << [kind |-> "write", fn |-> m.writeTrap,
                  addr |-> addrPlus(m.addr, offset), value |-> value,
                  seen |-> Peek(m, offset)] >> ]

\* block.readData(offset), whatever the slot holds
blockRead(m, offset) ==
    IF m.readData = "readTrap" THEN readTrap(m, offset)
    ELSE [value |-> readDirect(m, m.readData, offset), log |-> << >>]

\* block.writeData(offset, value), whatever the slot holds
blockWrite(m, offset, value) ==
    IF m.writeData = "writeTrap" THEN writeTrap(m, offset, value)
    ELSE [m |-> writeDirect(m, m.writeData, offset, value), log |-> << >>]

(***************************************************************************)
(* Bus.readData(addr) and Bus.writeData(addr, value).                      *)
(***************************************************************************)
\* (addr & addrLimit) >>> blockShift
blockIndex(addr) == (addr % addrTotal) \div blockSize
\* addr & blockLimit
blockOffset(addr) == addr % blockSize

readData(bs, ms, addr) ==
    blockRead(ms[bs[blockIndex(addr)]], blockOffset(addr))

writeData(bs, ms, addr, value) ==
    LET id == bs[blockIndex(addr)]
        r == blockWrite(ms[id], blockOffset(addr), value)
    IN  [mem |-> [ms EXCEPT ![id] = r.m], log |-> r.log]

(***************************************************************************)
(* Bus.trapRead, trapWrite, untrapRead, untrapWrite on the block object.   *)
(***************************************************************************)
\* trapRead letting a second callback take the block over
trapReadBlock_Replace(m, func) ==
    IF m.nReadTraps = 0
    THEN [m |-> [m EXCEPT !.nReadTraps = 1, !.readTrap = func,
                          !.readPrev = m.readData, !.readData = "readTrap"],
          ret |-> TRUE]
    ELSE [m |-> [m EXCEPT !.nReadTraps = @ + 1, !.readTrap = func], ret |-> TRUE]

trapReadBlock(m, func) ==
    IF m.nReadTraps = 0
    THEN [m |-> [m EXCEPT !.nReadTraps = 1, !.readTrap = func,
                          !.readPrev = m.readData, !.readData = "readTrap"],
          ret |-> TRUE]
    ELSE IF m.readTrap = func
    THEN [m |-> [m EXCEPT !.nReadTraps = @ + 1], ret |-> TRUE]
    ELSE [m |-> m, ret |-> FALSE]

trapWriteBlock(m, func) ==
    IF m.nWriteTraps = 0
    THEN [m |-> [m EXCEPT !.nWriteTraps = 1, !.writeTrap = func,
                          !.writePrev = m.writeData, !.writeData = "writeTrap"],
          ret |-> TRUE]
    ELSE IF m.writeTrap = func
    THEN [m |-> [m EXCEPT !.nWriteTraps = @ + 1], ret |-> TRUE]
    ELSE [m |-> m, ret |-> FALSE]

\* untrapRead leaving the wrapper in the readData slot
untrapReadBlock_NoRestore(m, func) ==
    IF m.nReadTraps /= 0 /\ m.readTrap = func
    THEN IF m.nReadTraps - 1 = 0
         THEN [m |-> [m EXCEPT !.nReadTraps = 0, !.readPrev = Unset, !.readTrap = Unset],
               ret |-> TRUE]
         ELSE [m |-> [m EXCEPT !.nReadTraps = @ - 1], ret |-> TRUE]
    ELSE [m |-> m, ret |-> FALSE]

\* untrapRead removing the trap whatever the count
untrapReadBlock_DropAll(m, func) ==
    IF m.nReadTraps /= 0 /\ m.readTrap = func
    THEN [m |-> [m EXCEPT !.nReadTraps = 0, !.readData = m.readPrev,
                          !.readPrev = Unset, !.readTrap = Unset],
          ret |-> TRUE]
    ELSE [m |-> m, ret |-> FALSE]

untrapReadBlock(m, func) ==
    IF m.nReadTraps /= 0 /\ m.readTrap = func
    THEN IF m.nReadTraps - 1 = 0
         THEN [m |-> [m EXCEPT !.nReadTraps = 0, !.readData = m.readPrev,
                               !.readPrev = Unset, !.readTrap = Unset],
               ret |-> TRUE]
         ELSE [m |-> [m EXCEPT !.nReadTraps = @ - 1], ret |-> TRUE]
    ELSE [m |-> m, ret |-> FALSE]

untrapWriteBlock(m, func) ==
    IF m.nWriteTraps /= 0 /\ m.writeTrap = func
    THEN IF m.nWriteTraps - 1 = 0
         THEN [m |-> [m EXCEPT !.nWriteTraps = 0, !.writeData = m.writePrev,
                               !.writePrev = Unset, !.writeTrap = Unset],
               ret |-> TRUE]
         ELSE [m |-> [m EXCEPT !.nWriteTraps = @ - 1], ret |-> TRUE]
    ELSE [m |-> m, ret |-> FALSE]

\* addr >>> blockShift, as the trap functions index the table (no addrLimit mask)
trapIndex(addr) == addr \div blockSize

trapRead(bs, ms, addr, func) ==
    LET id == bs[trapIndex(addr)]
        r == trapReadBlock(ms[id], func)
    IN  [mem |-> [ms EXCEPT ![id] = r.m], ret |-> r.ret]

trapWrite(bs, ms, addr, func) ==
    LET id == bs[trapIndex(addr)]
        r == trapWriteBlock(ms[id], func)
    IN  [mem |-> [ms EXCEPT ![id] = r.m], ret |-> r.ret]

untrapRead(bs, ms, addr, func) ==
    LET id == bs[trapIndex(addr)]
        r == untrapReadBlock(ms[id], func)
    IN  [mem |-> [ms EXCEPT ![id] = r.m], ret |-> r.ret]

untrapWrite(bs, ms, addr, func) ==
    LET id == bs[trapIndex(addr)]
        r == untrapWriteBlock(ms[id], func)
    IN  [mem |-> [ms EXCEPT ![id] = r.m], ret |-> r.ret]

(***************************************************************************)
(* The bus as a state machine: one action per Bus method.                  *)
(***************************************************************************)
NoOp == [op |-> "constructor", addr |-> 0, size |-> 0, type |-> TYPE.NONE,
         block |-> NoBlock, func |-> Unset, value |-> 0]

BusInit ==
    /\ blocks = constructor.blocks
    /\ mem = constructor.mem
    /\ busOp = NoOp
    /\ busRet = [ok |-> TRUE, value |-> 0, called |-> << >>]
    /\ trapLog = << >>

Ret(ok, value, called) == [ok |-> ok, value |-> value, called |-> called]

\* the trap references outstanding, over all objects
RECURSIVE SumTraps(_, _)
SumTraps(ms, id) ==
    IF id > DonorDiff THEN 0
    ELSE ms[id].nReadTraps + ms[id].nWriteTraps + SumTraps(ms, id + 1)

TotalTraps == SumTraps(mem, 0)

AddBlocksCall(addr, size, type, block) ==
    \E r \in {addBlocks(blocks, mem, addr, size, type, block)} :
        /\ blocks' = r.blocks
        /\ mem' = r.mem
        /\ busOp' = [NoOp EXCEPT !.op = "addBlocks", !.addr = addr, !.size = size,
                                 !.block = block]
        /\ busRet' = Ret(r.ret, 0, << >>)
        /\ trapLog' = << >>

\* machine bring-up: any region, any type, with or without a donor block
AddBlocks ==
    \E addr \in Addrs, size \in {1, blockSize, 2 * blockSize},
       d \in {<< TYPE.RAM, NoBlock >>, << TYPE.RAM, DonorSame >>, << TYPE.ROM, DonorDiff >>} :
        AddBlocksCall(addr, size, d[1], d[2])

EnumBlocks ==
    \E type \in 1 .. 3 :
        \E r \in {enumBlocks(blocks, mem, type)} :
            /\ busOp' = [NoOp EXCEPT !.op = "enumBlocks", !.type = type]
            /\ busRet' = Ret(TRUE, r.ret, r.called)
            /\ trapLog' = << >>
            /\ UNCHANGED << blocks, mem >>

ReadData ==
    \E addr \in AccessAddrs :
        \E r \in {readData(blocks, mem, addr)} :
            /\ busOp' = [NoOp EXCEPT !.op = "readData", !.addr = addr]
            /\ busRet' = Ret(TRUE, r.value, << >>)
            /\ trapLog' = r.log
            /\ UNCHANGED << blocks, mem >>

WriteData ==
    \E addr \in AccessAddrs, value \in Vals :
        \E r \in {writeData(blocks, mem, addr, value)} :
            /\ mem' = r.mem
            /\ busOp' = [NoOp EXCEPT !.op = "writeData", !.addr = addr, !.value = value]
            /\ busRet' = Ret(TRUE, 0, << >>)
            /\ trapLog' = r.log
            /\ UNCHANGED blocks

TrapRead ==
    \E addr \in TrapAddrs, func \in Funcs :
        \E r \in {trapRead(blocks, mem, addr, func)} :
            /\ TotalTraps < MaxTraps
            /\ mem' = r.mem
            /\ busOp' = [NoOp EXCEPT !.op = "trapRead", !.addr = addr, !.func = func]
            /\ busRet' = Ret(r.ret, 0, << >>)
            /\ trapLog' = << >>
            /\ UNCHANGED blocks

TrapWrite ==
    \E addr \in TrapAddrs, func \in Funcs :
        \E r \in {trapWrite(blocks, mem, addr, func)} :
            /\ TotalTraps < MaxTraps
            /\ mem' = r.mem
            /\ busOp' = [NoOp EXCEPT !.op = "trapWrite", !.addr = addr, !.func = func]
            /\ busRet' = Ret(r.ret, 0, << >>)
            /\ trapLog' = << >>
            /\ UNCHANGED blocks

UntrapRead ==
    \E addr \in TrapAddrs, func \in Funcs :
        \E r \in {untrapRead(blocks, mem, addr, func)} :
            /\ mem' = r.mem
            /\ busOp' = [NoOp EXCEPT !.op = "untrapRead", !.addr = addr, !.func = func]
            /\ busRet' = Ret(r.ret, 0, << >>)
            /\ trapLog' = << >>
            /\ UNCHANGED blocks

UntrapWrite ==
    \E addr \in TrapAddrs, func \in Funcs :
        \E r \in {untrapWrite(blocks, mem, addr, func)} :
            /\ mem' = r.mem
            /\ busOp' = [NoOp EXCEPT !.op = "untrapWrite", !.addr = addr, !.func = func]
            /\ busRet' = Ret(r.ret, 0, << >>)
            /\ trapLog' = << >>
            /\ UNCHANGED blocks

\* bring-up of the machines traps are then used on: a RAM region on a block
\* boundary and a RAM region off it; the rest of the bus stays NONE
AddRegion ==
    \/ AddBlocksCall(0, blockSize, TYPE.RAM, NoBlock)
    \/ AddBlocksCall(blockSize + 1, blockSize - 1, TYPE.RAM, NoBlock)

(***************************************************************************)
(* X86 segment registers (X86Seg).  The constants are those of X86 (x86.js)*)
(* that the segment code names.                                            *)
(***************************************************************************)
ADDR_INVALID == -1
SEL ==
    [RPL |-> 3,
     LDT |-> 4,
     MASK |-> 65528]
ACC ==
    [BASE1623 |-> 255,
     TYPE |-> [MASK |-> 7936,
               SEG |-> 4096,
               CODE |-> 2048,
               EXPDOWN |-> 1024,
               WRITABLE |-> 512,
               READABLE |-> 512,
               ACCESSED |-> 256,
               CODE_EXECONLY |-> 6144,
               CODE_READABLE |-> 6656,
               TSS |-> 256,
               LDT |-> 512,
               TSS_BUSY |-> 768,
               GATE_CALL |-> 1024,
               GATE_TASK |-> 1280,
               GATE_INT |-> 1536,
               GATE_TRAP |-> 1792,
               CONFORMING |-> 1024],
     DPL |-> [MASK |-> 24576,
              SHIFT |-> 13],
     PRESENT |-> 32768]

EXCEPTION ==
    [GP_FAULT |-> 13,
     NP_FAULT |-> 11,
     SS_FAULT |-> 12,
     TS_FAULT |-> 10]
ERRCODE ==
    [EXT |-> 1,
     IDT |-> 2]

\* X86.PS and X86.CR0.MSW
PS_TF == 256
PS_IF == 512
PS_NT == 16384
MSW_TS == 8

\* X86.TSS: the offsets of the fields of an 80286 task state segment
TSS ==
    [PREV_TSS |-> 0,
     CPL0_SP |-> 2,
     TASK_IP |-> 14,
     TASK_PS |-> 16,
     TASK_AX |-> 18,
     TASK_CX |-> 20,
     TASK_DX |-> 22,
     TASK_BX |-> 24,
     TASK_SP |-> 26,
     TASK_BP |-> 28,
     TASK_SI |-> 30,
     TASK_DI |-> 32,
     TASK_ES |-> 34,
     TASK_CS |-> 36,
     TASK_SS |-> 38,
     TASK_DS |-> 40,
     TASK_LDT |-> 42]

\* X86Seg.ID
ID ==
    [CODE |-> 1,
     DATA |-> 2,
     STACK |-> 3,
     TSS |-> 4,
     LDT |-> 5]

\* the limit of the descriptors of the tables modelled
SegLimit == 15

\* x & y on two bytes, bit by bit
RECURSIVE BitAndByte(_, _)
BitAndByte(x, y) ==
    IF x = 0 \/ y = 0 THEN 0
    ELSE (IF x % 2 = 1 /\ y % 2 = 1 THEN 1 ELSE 0) + 2 * BitAndByte(x \div 2, y \div 2)

Bytes == 0 .. 255
BitAndTable == [x \in Bytes |-> [y \in Bytes |-> BitAndByte(x, y)]]

\* x & y on naturals below 2^24, byte by byte
BitAnd(x, y) ==
      BitAndTable[x % 256][y % 256]
    + 256 * BitAndTable[(x \div 256) % 256][(y \div 256) % 256]
    + 65536 * BitAndTable[(x \div 65536) % 256][(y \div 65536) % 256]

\* x | y on naturals
BitOr(x, y) == x + y - BitAnd(x, y)

\* the one element of a set of one; Only({e(x) : x \in {v}}) is e with x bound
\* to the value of v
Only(S) == CHOOSE x \in S : TRUE

\* x | 0 for a sum of a base and an offset: the integers of the checker are the
\* values of an int32, on which x | 0 is x, and the sums formed here (a base of
\* 24 bits and an offset of 16 bits, or -1) stay among them
ToInt32(x) == x

\* (off >>> 0) + cb <= offMax.  For off < 0, off >>> 0 is off + 2^32, at least
\* 2^31 and so above every offMax of an 80286 (at most 0x10000); for off >= 0 it
\* is off
WithinMax(off, cb, offMax) == off >= 0 /\ off + cb <= offMax

(***************************************************************************)
(* The CPU the segment belongs to: the descriptor tables in memory.  A     *)
(* descriptor is kept as its four words.  The GDT holds eight descriptors  *)
(* within its limit; the slot behind them is memory past the table.  The   *)
(* LDT holds two, and its limit is the address of a third.                 *)
(***************************************************************************)
addrGDT == 2048
addrGDTLimit == addrGDT + 8 * 8 - 1
segLDT == [base |-> 4096, limit |-> 8 * 2]

Desc(limit, base, acc) ==
    [limit |-> limit, base |-> base % 65536, acc |-> acc + base \div 65536, ext |-> 0]

DATA_RW == ACC.PRESENT + ACC.TYPE.SEG + ACC.TYPE.WRITABLE
DATA_RO == ACC.PRESENT + ACC.TYPE.SEG + ACC.TYPE.ACCESSED
DATA_DOWN == ACC.PRESENT + ACC.TYPE.SEG + ACC.TYPE.EXPDOWN + ACC.TYPE.WRITABLE + ACC.TYPE.ACCESSED
CODE_XO == ACC.PRESENT + ACC.TYPE.CODE_EXECONLY + ACC.TYPE.ACCESSED
CODE_RX == ACC.PRESENT + ACC.TYPE.CODE_READABLE + ACC.TYPE.ACCESSED
DATA_NP == ACC.TYPE.SEG + ACC.TYPE.WRITABLE + ACC.TYPE.ACCESSED
SYS_TSS == ACC.PRESENT + ACC.TYPE.TSS

\* descriptor memory when the machine enters protected mode
DescMemory ==
    (addrGDT      :> Desc(0, 0, 0)) @@
    (addrGDT + 8  :> Desc(SegLimit, 262144, DATA_RW)) @@
    (addrGDT + 16 :> Desc(SegLimit, 327680, DATA_RO)) @@
    (addrGDT + 24 :> Desc(SegLimit, 393216, DATA_DOWN)) @@
    (addrGDT + 32 :> Desc(SegLimit, 458752, CODE_XO)) @@
    (addrGDT + 40 :> Desc(SegLimit, 524288, CODE_RX)) @@
    (addrGDT + 48 :> Desc(SegLimit, 589824, DATA_NP)) @@
    (addrGDT + 56 :> Desc(0, 0, 0)) @@
    (addrGDT + 64 :> Desc(SegLimit, 655360, DATA_RW + ACC.TYPE.ACCESSED)) @@
    (segLDT.base     :> Desc(SegLimit, 720896, CODE_XO + ACC.DPL.MASK)) @@
    (segLDT.base + 8 :> Desc(SegLimit, 786432, SYS_TSS))

\* the selectors loaded in protected mode: every slot above, one with RPL 3,
\* and the LDT selector whose descriptor starts at the LDT's limit
Selectors ==
    {8 * i : i \in 0 .. 8} \cup {8 + 3, SEL.LDT, SEL.LDT + 8, SEL.LDT + 16}

\* the values loaded in real mode, one of them wider than 16 bits and with the
\* two low bits set
RealSelectors == {0, 61440, 65536 + 11}

\* the offsets and sizes checked; -1 is the int32 of offset 0xFFFFFFFF
CheckOffsets == {SegLimit - 1, SegLimit, -1}
CheckSizes == {1, 2}

VARIABLES
    seg,        \* the X86Seg object
    fProtMode,  \* cpu.regCR0 & X86.CR0.MSW.PE
    descMem,    \* the descriptors in the CPU's memory
    segOp,      \* the last segment operation and its arguments
    segRet,     \* what it returned
    faults,     \* the calls of X86.fnFault it made, in order
    cpu         \* the CPU, where the code segment register is modelled

segVars == << seg, fProtMode, descMem, segOp, segRet, faults, cpu >>

Fault(code, err, fHalt) == [code |-> code, err |-> err, fHalt |-> fHalt]

(***************************************************************************)
(* X86Seg.prototype.updateMode(fLoad, fProt): rebinds the function slots;  *)
(* a load also marks the descriptor accessed and recomputes cpl and dpl.   *)
(***************************************************************************)
\* updateMode binding the limit checks whatever the selector and the access
\* rights are, and leaving the descriptor in memory as it is
updateMode_NoRights(sg, dm, fLoad, fProt) ==
    IF fProt
    THEN [seg |-> [sg EXCEPT !.load = "loadProt", !.loadIDT = "loadIDTProt",
                             !.checkRead = "checkReadProt",
                             !.checkWrite = "checkWriteProt", !.fExpDown = FALSE,
                             !.cpl = IF fLoad THEN BitAnd(sg.sel, SEL.RPL) ELSE @],
          descMem |-> dm]
    ELSE [seg |-> [sg EXCEPT !.load = "loadReal", !.loadIDT = "loadIDTReal",
                             !.checkRead = "checkReadReal", !.checkWrite = "checkWriteReal",
                             !.fExpDown = FALSE,
                             !.cpl = 0, !.dpl = 0, !.addrDesc = ADDR_INVALID],
          descMem |-> dm]

\* updateMode recomputing cpl from the selector on a mode change as well
updateMode_CplAlways(sg, dm, fLoad, fProt) ==
    IF fProt
    THEN [seg |-> [sg EXCEPT !.load = "loadProt", !.loadIDT = "loadIDTProt",
                             !.checkRead = "checkReadProt",
                             !.checkWrite = "checkWriteProt", !.fExpDown = FALSE,
                             !.cpl = BitAnd(sg.sel, SEL.RPL)],
          descMem |-> dm]
    ELSE [seg |-> [sg EXCEPT !.load = "loadReal", !.loadIDT = "loadIDTReal",
                             !.checkRead = "checkReadReal", !.checkWrite = "checkWriteReal",
                             !.fExpDown = FALSE,
                             !.cpl = 0, !.dpl = 0, !.addrDesc = ADDR_INVALID],
          descMem |-> dm]

updateMode(sg, dm, fLoad, fProt) ==
    IF fProt
    THEN
      Only({ Only({ Only({
          IF fLoad
          THEN [seg |-> [s1 EXCEPT !.cpl = BitAnd(sg.sel, SEL.RPL),
                                   !.dpl = BitAnd(sg.acc, ACC.DPL.MASK) \div (2 ^ ACC.DPL.SHIFT),
                                   !.dataSize = 2, !.dataMask = 65535,
                                   !.addrSize = 2, !.addrMask = 65535],
                descMem |-> IF ~isNull /\ sg.addrDesc /= ADDR_INVALID
                            THEN [dm EXCEPT ![sg.addrDesc].acc = BitOr(@, ACC.TYPE.ACCESSED)]
                            ELSE dm]
          ELSE [seg |-> s1, descMem |-> dm] :
          s1 \in {[sg EXCEPT !.load = "loadProt", !.loadIDT = "loadIDTProt",
                             !.checkRead = IF down /\ rd1 = "checkReadProt"
                                           THEN "checkReadProtDown" ELSE rd1,
                             !.checkWrite = IF down /\ wr1 = "checkWriteProt"
                                            THEN "checkWriteProtDown" ELSE wr1,
                             !.fExpDown = down]} }) :
          rd1 \in {IF isNull THEN "checkReadProtDisallowed"
                   ELSE IF isSeg /\ BitAnd(sg.acc, ACC.TYPE.CODE_READABLE) = ACC.TYPE.CODE_EXECONLY
                   THEN "checkReadProtDisallowed"
                   ELSE "checkReadProt"},
          wr1 \in {IF isNull THEN "checkWriteProtDisallowed"
                   ELSE IF isSeg /\ ( BitAnd(sg.acc, ACC.TYPE.CODE) /= 0
                                      \/ BitAnd(sg.acc, ACC.TYPE.WRITABLE) = 0 )
                   THEN "checkWriteProtDisallowed"
                   ELSE "checkWriteProt"},
          down \in {/\ ~isNull
                    /\ isSeg
                    /\ BitAnd(sg.acc, ACC.TYPE.CODE + ACC.TYPE.EXPDOWN) = ACC.TYPE.EXPDOWN} }) :
          isNull \in {BitAnd(sg.sel, SEL.MASK + SEL.LDT) = 0},
          isSeg \in {BitAnd(sg.acc, ACC.TYPE.SEG) /= 0} })
    ELSE [seg |-> [sg EXCEPT !.load = "loadReal", !.loadIDT = "loadIDTReal",
                             !.checkRead = "checkReadReal", !.checkWrite = "checkWriteReal",
                             !.fExpDown = FALSE,
                             !.cpl = 0, !.dpl = 0, !.addrDesc = ADDR_INVALID],
          descMem |-> dm]

\* new X86Seg(cpu, id, sName, fProt), on a CPU in real mode
X86Seg(id) ==
    updateMode([ id |-> id, sel |-> 0, limit |-> 65535, offMax |-> 65535 + 1, base |-> 0,
                 acc |-> 0, type |-> 0, ext |-> 0, cpl |-> 0, dpl |-> 0,
                 addrDesc |-> ADDR_INVALID,
                 dataSize |-> 2, addrSize |-> 2, dataMask |-> 65535, addrMask |-> 65535,
                 load |-> Unset, loadIDT |-> Unset, checkRead |-> Unset, checkWrite |-> Unset,
                 fExpDown |-> FALSE,
                 awParms |-> << >>, fCall |-> "null", fStackSwitch |-> FALSE ],
               DescMemory, TRUE, FALSE).seg

(***************************************************************************)
(* X86Seg.prototype.save() and restore(a).  The model's registers carry no *)
(* name: sName is the empty string.  restore is given an array here; given *)
(* a number it calls load.                                                 *)
(***************************************************************************)
save(sg) ==
    << sg.sel, sg.base, sg.limit, sg.acc, sg.id, "", sg.cpl, sg.dpl, sg.addrDesc,
       sg.addrSize, sg.addrMask, sg.dataSize, sg.dataMask, sg.type, sg.offMax >>

\* a || d on numbers
OrElse(a, d) == IF a = 0 THEN d ELSE a

\* restore taking the selector only, as early versions saved it
restore_SelectorOnly(sg, a) == [sg EXCEPT !.sel = a[1]]

restore(sg, a) ==
    [sg EXCEPT !.sel = a[1], !.base = a[2], !.limit = a[3], !.acc = a[4], !.id = a[5],
               !.cpl = a[7], !.dpl = a[8], !.addrDesc = a[9],
               !.addrSize = OrElse(a[10], 2), !.addrMask = OrElse(a[11], 65535),
               !.dataSize = OrElse(a[12], 2), !.dataMask = OrElse(a[13], 65535),
               !.type = OrElse(a[14], BitAnd(a[4], ACC.TYPE.MASK)),
               !.offMax = OrElse(a[15], a[3] + 1)]

(***************************************************************************)
(* X86Seg.prototype.loadReal(sel, fSuppress)                               *)
(***************************************************************************)
\* loadReal resetting the limit as well
loadReal_ResetLimit(sg, sel) ==
    LET s == BitAnd(sel, 65535)
    IN  [seg |-> [sg EXCEPT !.sel = s, !.base = s * 16, !.limit = 65535, !.offMax = 65536],
         ret |-> s * 16]

loadReal(sg, sel) ==
    LET s == BitAnd(sel, 65535)
    IN  [seg |-> [sg EXCEPT !.sel = s, !.base = s * 16], ret |-> s * 16]

\* a descriptor read from memory; where no memory is installed its words are ones
getDesc(dm, addrDesc) ==
    IF addrDesc \in DOMAIN dm THEN dm[addrDesc]
    ELSE [limit |-> 65535, base |-> 65535, acc |-> 65535, ext |-> 65535]

(***************************************************************************)
(* X86Seg.prototype.loadDesc8(addrDesc, sel, fSuppress), on an 80286, for  *)
(* the segment registers other than CS.                                    *)
(***************************************************************************)
loadDesc8(sg, dm, fProt, addrDesc, sel, fSuppress) ==
    LET d == getDesc(dm, addrDesc)
        limit == d.limit
        acc == d.acc
        type == BitAnd(acc, ACC.TYPE.MASK)
        base == BitOr(d.base, BitAnd(acc, ACC.BASE1623) * 65536)
        ext == d.ext
        selMasked == BitAnd(sel, SEL.MASK)
        present == BitAnd(acc, ACC.PRESENT) /= 0
        failed(code, fHalt) ==
            [seg |-> sg, descMem |-> dm, ret |-> ADDR_INVALID,
             faults |-> IF fSuppress THEN << >> ELSE << Fault(code, sel, fHalt) >>]
        loaded ==
            Only({ [seg |-> u.seg, descMem |-> u.descMem, ret |-> base, faults |-> << >>] :
                   u \in {updateMode([sg EXCEPT !.sel = sel, !.base = base, !.limit = limit,
                                                !.offMax = limit + 1, !.acc = acc,
                                                !.type = type, !.ext = ext,
                                                !.addrDesc = addrDesc],
                                     dm, TRUE, fProt)} })
        \* the fault of the branch of the register's id and its fHalt, or none
        refused ==
            IF sg.id = ID.DATA
            THEN IF selMasked /= 0 /\ ~present
                 THEN << EXCEPTION.NP_FAULT, FALSE >>
                 ELSE IF /\ selMasked /= 0
                         /\ \/ type < ACC.TYPE.SEG
                            \/ BitAnd(type, ACC.TYPE.CODE + ACC.TYPE.READABLE) = ACC.TYPE.CODE
                 THEN << EXCEPTION.GP_FAULT, acc /= 0 >>
                 ELSE << >>
            ELSE IF sg.id = ID.STACK
            THEN IF ~present
                 THEN << EXCEPTION.SS_FAULT, FALSE >>
                 ELSE IF \/ selMasked = 0
                         \/ type < ACC.TYPE.SEG
                         \/ BitAnd(type, ACC.TYPE.CODE + ACC.TYPE.WRITABLE) /= ACC.TYPE.WRITABLE
                 THEN << EXCEPTION.GP_FAULT, TRUE >>
                 ELSE << >>
            ELSE IF sg.id = ID.TSS
            THEN IF selMasked = 0 \/ (type /= ACC.TYPE.TSS /\ type /= ACC.TYPE.TSS_BUSY)
                 THEN << EXCEPTION.TS_FAULT, TRUE >>
                 ELSE << >>
            ELSE << >>
    IN  Only({ IF f = << >> THEN loaded ELSE failed(f[1], f[2]) : f \in {refused} })

(***************************************************************************)
(* X86Seg.prototype.loadProt(sel, fSuppress).  The test of the table limit *)
(* as JavaScript evaluates it: (addrDTLimit - addrDesc)|0 >= 7 is          *)
(* (addrDTLimit - addrDesc) | (0 >= 7), which is nonzero exactly when the  *)
(* difference is.                                                          *)
(***************************************************************************)
\* the descriptor the selector names in the tables dt, or ADDR_INVALID with the
\* fault reported when the table's limit test fails
findDesc(dt, sel, fSuppress) ==
    LET fLDT == BitAnd(sel, SEL.LDT) /= 0
        addrDT == IF fLDT THEN dt.segLDT.base ELSE dt.addrGDT
        addrDTLimit == IF fLDT THEN ToInt32(addrDT + dt.segLDT.limit) ELSE dt.addrGDTLimit
        addrDesc == ToInt32(addrDT + BitAnd(sel, SEL.MASK))
    IN  IF ~fSuppress \/ addrDT /= 0
        THEN IF addrDTLimit - addrDesc /= 0
             THEN [addrDesc |-> addrDesc, faults |-> << >>]
             ELSE [addrDesc |-> ADDR_INVALID,
                   faults |-> IF fSuppress THEN << >> ELSE << Fault(EXCEPTION.GP_FAULT, sel, FALSE) >>]
        ELSE [addrDesc |-> ADDR_INVALID, faults |-> << >>]

\* loadProt on a CPU whose table registers are dt
loadProtIn(dt, sg, dm, fProt, selArg, fSuppress) ==
    Only({ IF f.addrDesc /= ADDR_INVALID
           THEN Only({ [seg |-> r.seg, descMem |-> r.descMem, ret |-> r.ret,
                        faults |-> r.faults, cycles |-> IF fSuppress THEN 0 ELSE 15] :
                       r \in {loadDesc8(sg, dm, fProt, f.addrDesc, BitAnd(selArg, 65535),
                                        fSuppress)} })
           ELSE [seg |-> sg, descMem |-> dm, ret |-> ADDR_INVALID,
                 faults |-> f.faults, cycles |-> 0] :
           f \in {findDesc(dt, BitAnd(selArg, 65535), fSuppress)} })

\* the table registers of the CPU of DescMemory
Tables == [addrGDT |-> addrGDT, addrGDTLimit |-> addrGDTLimit, segLDT |-> segLDT]

loadProt(sg, dm, fProt, selArg, fSuppress) ==
    loadProtIn(Tables, sg, dm, fProt, selArg, fSuppress)

\* this.load(sel, fSuppress)
load(sg, dm, fProt, sel, fSuppress) ==
    IF sg.load = "loadReal"
    THEN LET r == loadReal(sg, sel)
         IN  [seg |-> r.seg, descMem |-> dm, ret |-> r.ret, faults |-> << >>, cycles |-> 0]
    ELSE loadProt(sg, dm, fProt, sel, fSuppress)

(***************************************************************************)
(* The check functions: checkReadReal, checkWriteReal, checkReadProt,      *)
(* checkReadProtDown, checkReadProtDisallowed and their write twins.       *)
(***************************************************************************)
checkProtDisallowed(fSuppress) ==
    [ret |-> ADDR_INVALID,
     faults |-> IF fSuppress THEN << >> ELSE << Fault(EXCEPTION.GP_FAULT, 0, FALSE) >>]

checkReal(sg, off) == [ret |-> ToInt32(sg.base + off), faults |-> << >>]

\* the limit check excluding the last byte of the segment
checkProt_Strict(sg, off, cb, fSuppress) ==
    IF off >= 0 /\ off + cb < sg.offMax
    THEN [ret |-> ToInt32(sg.base + off), faults |-> << >>]
    ELSE checkProtDisallowed(fSuppress)

checkProt(sg, off, cb, fSuppress) ==
    IF WithinMax(off, cb, sg.offMax)
    THEN [ret |-> ToInt32(sg.base + off), faults |-> << >>]
    ELSE checkProtDisallowed(fSuppress)

checkProtDown(sg, off, cb, fSuppress) ==
    IF ~WithinMax(off, cb, sg.offMax)
    THEN [ret |-> ToInt32(sg.base + off), faults |-> << >>]
    ELSE checkProtDisallowed(fSuppress)

\* the function a slot is bound to, applied
callCheck(slot, sg, off, cb, fSuppress) ==
    IF slot \in {"checkReadReal", "checkWriteReal"} THEN checkReal(sg, off)
    ELSE IF slot \in {"checkReadProt", "checkWriteProt"} THEN checkProt(sg, off, cb, fSuppress)
    ELSE IF slot \in {"checkReadProtDown", "checkWriteProtDown"}
    THEN checkProtDown(sg, off, cb, fSuppress)
    ELSE checkProtDisallowed(fSuppress)

checkRead(sg, off, cb, fSuppress) == callCheck(sg.checkRead, sg, off, cb, fSuppress)
checkWrite(sg, off, cb, fSuppress) == callCheck(sg.checkWrite, sg, off, cb, fSuppress)

(***************************************************************************)
(* The CPU around the code segment register.  A CPU is a record of its     *)
(* segment registers (segCS, segSS, segDS, segES, segTSS, segLDT), its     *)
(* table registers (addrGDT, addrGDTLimit), the descriptors and the bytes  *)
(* in its memory (descMem, mem), regSP (the offset getSP returns), regPS,  *)
(* regEIP, regs (AX to DI), regCR0, and what an operation leaves behind:   *)
(* the calls of X86.fnFault (faults) and the cycles it took (cycles).      *)
(* CS is loaded in protected mode only here.  An operator on a CPU starts  *)
(* by binding the CPU it is given (c \in {cArg}), so that the CPU is       *)
(* computed once however often the operator reads it.                      *)
(***************************************************************************)
cpuTables(c) ==
    [addrGDT |-> c.addrGDT, addrGDTLimit |-> c.addrGDTLimit, segLDT |-> c.segLDT]

\* X86.fnFault.call(cpu, code, err, fHalt), unless suppressed
cpuFault(c, code, err, fHalt, fSuppress) ==
    IF fSuppress THEN c ELSE [c EXCEPT !.faults = Append(@, Fault(code, err, fHalt))]

\* cpu.getShort and cpu.setShort on the bytes of memory; outside the memory
\* modelled no block is installed: a read returns ones, a write is dropped
getByte(c, a) == IF a \in DOMAIN c.mem THEN c.mem[a] ELSE 255
getShort(c, a) == getByte(c, a) + 256 * getByte(c, a + 1)
setByte(m, a, b) == IF a \in DOMAIN m THEN [m EXCEPT ![a] = b] ELSE m
setShort(c, a, w) ==
    [c EXCEPT !.mem = setByte(setByte(@, a, w % 256), a + 1, (w \div 256) % 256)]

\* cpu[r].load(sel, fSuppress) for a segment register other than CS
cpuLoad(cArg, r, sel, fSuppress) ==
    Only({ Only({ [cpu |-> [c EXCEPT ![r] = x.seg, !.descMem = x.descMem,
                                     !.faults = @ \o x.faults, !.cycles = @ + x.cycles],
                   ret |-> x.ret] :
                  x \in {loadProtIn(cpuTables(c), c[r], c.descMem, TRUE, sel, fSuppress)} }) :
           c \in {cArg} })

\* cpu.getSOWord(seg, off) and cpu.setSOWord(seg, off, w): a word of a segment,
\* through the segment's check
getSOWord(cArg, r, off) ==
    Only({ Only({ [cpu |-> [c EXCEPT !.faults = @ \o k.faults], w |-> getShort(c, k.ret)] :
                  k \in {checkRead(c[r], off, 2, FALSE)} }) :
           c \in {cArg} })

setSOWord(cArg, r, off, w) ==
    Only({ Only({ setShort([c EXCEPT !.faults = @ \o k.faults], k.ret, w) :
                  k \in {checkWrite(c[r], off, 2, FALSE)} }) :
           c \in {cArg} })

\* cpu.setSP(off), cpu.setSS(sel, true): the new stack segment keeps the offset
setSP(c, off) == [c EXCEPT !.regSP = off % 65536]
setSS(c, sel) == cpuLoad(c, "segSS", sel, FALSE).cpu

\* cpu.popWord() and cpu.pushWord(w)
popWord(cArg) ==
    Only({ Only({ [cpu |-> setSP(g.cpu, c.regSP + 2), w |-> g.w] :
                  g \in {getSOWord(c, "segSS", c.regSP)} }) :
           c \in {cArg} })

pushWord(cArg, w) ==
    Only({ setSOWord(c1, "segSS", c1.regSP, w) :
           c1 \in {[cArg EXCEPT !.regSP = (@ - 2 + 65536) % 65536]} })

\* the words ws pushed, the last one first
RECURSIVE pushWords_LastFirst(_, _)
pushWords_LastFirst(cArg, wsArg) ==
    Only({ IF ws = << >> THEN c
           ELSE pushWord(pushWords_LastFirst(c, Tail(ws)), Head(ws)) :
           c \in {cArg}, ws \in {wsArg} })

\* the words ws pushed, the first one first
RECURSIVE pushWords(_, _)
pushWords(cArg, wsArg) ==
    Only({ IF ws = << >> THEN c ELSE pushWords(pushWord(c, Head(ws)), Tail(ws)) :
           c \in {cArg}, ws \in {wsArg} })

\* the words at the offsets given, written at addr
RECURSIVE setShorts(_, _, _)
setShorts(cArg, addr, owsArg) ==
    Only({ IF ows = << >> THEN c
           ELSE setShorts(setShort(c, addr + Head(ows)[1], Head(ows)[2]), addr, Tail(ows)) :
           c \in {cArg}, ows \in {owsArg} })

\* the loop copying nWords parameters from the stack at regSP into awParms
RECURSIVE copyParms(_, _, _)
copyParms(cArg, regSP, nWords) ==
    IF nWords = 0 THEN [cpu |-> cArg, ws |-> << >>]
    ELSE Only({ Only({ [cpu |-> rest.cpu, ws |-> << g.w >> \o rest.ws] :
                       rest \in {copyParms(g.cpu, regSP + 2, nWords - 1)} }) :
                g \in {getSOWord(cArg, "segSS", regSP)} })

Reverse(ws) == [i \in 1 .. Len(ws) |-> ws[Len(ws) + 1 - i]]

RECURSIVE loadCS(_, _, _)
RECURSIVE loadDesc8CS(_, _, _, _)
RECURSIVE switchTSS(_, _, _)
RECURSIVE setCSIP(_, _, _, _)

\* switchTSS leaving the descriptor of the old TSS as it is
clearBusy_Never(c) == c

\* the descriptor of the TSS in segTSS rewritten in memory as not busy
clearBusy(c) ==
    [c EXCEPT !.descMem[c.segTSS.addrDesc].acc =
                  BitOr(c.segTSS.acc - BitAnd(c.segTSS.acc, ACC.TYPE.TSS_BUSY), ACC.TYPE.TSS)]

\* the TSS in segTSS marked busy, in the register and in memory
setBusy(c) ==
    [c EXCEPT !.descMem[c.segTSS.addrDesc].acc = BitOr(c.segTSS.acc, ACC.TYPE.TSS_BUSY),
              !.segTSS.acc = BitOr(@, ACC.TYPE.TSS_BUSY),
              !.segTSS.type = ACC.TYPE.TSS_BUSY]

\* switchTSS taking the stack from the task's own SS and SP whatever the levels
stackOffsets_Task(cpl, cplOld) == [SP |-> TSS.TASK_SP, SS |-> TSS.TASK_SS]

\* offSP and offSS: the fields of the new TSS the stack is taken from
stackOffsets(cpl, cplOld) ==
    IF cpl < cplOld
    THEN [SP |-> cpl * 4 + TSS.CPL0_SP, SS |-> cpl * 4 + TSS.CPL0_SP + 2]
    ELSE [SP |-> TSS.TASK_SP, SS |-> TSS.TASK_SS]

(***************************************************************************)
(* X86Seg.prototype.switchTSS(selNew, fNest), called on segCS.             *)
(***************************************************************************)
switchTSS(cArg, selNew, fNest) ==
    LET \* the context saved in the old TSS
        saved(cc, addrOld) ==
            setShorts(cc, addrOld,
                << << TSS.TASK_IP, cc.regEIP >>, << TSS.TASK_PS, cc.regPS >>,
                   << TSS.TASK_AX, cc.regs.AX >>, << TSS.TASK_CX, cc.regs.CX >>,
                   << TSS.TASK_DX, cc.regs.DX >>, << TSS.TASK_BX, cc.regs.BX >>,
                   << TSS.TASK_SP, cc.regSP >>, << TSS.TASK_BP, cc.regs.BP >>,
                   << TSS.TASK_SI, cc.regs.SI >>, << TSS.TASK_DI, cc.regs.DI >>,
                   << TSS.TASK_ES, cc.segES.sel >>, << TSS.TASK_CS, cc.segCS.sel >>,
                   << TSS.TASK_SS, cc.segSS.sel >>, << TSS.TASK_DS, cc.segDS.sel >> >>)
        \* the registers loaded from the new TSS
        restored(cc, addrNew) ==
            [cc EXCEPT !.regPS = BitOr(getShort(cc, addrNew + TSS.TASK_PS),
                                       IF fNest THEN PS_NT ELSE 0),
                       !.regs = [AX |-> getShort(cc, addrNew + TSS.TASK_AX),
                                 CX |-> getShort(cc, addrNew + TSS.TASK_CX),
                                 DX |-> getShort(cc, addrNew + TSS.TASK_DX),
                                 BX |-> getShort(cc, addrNew + TSS.TASK_BX),
                                 BP |-> getShort(cc, addrNew + TSS.TASK_BP),
                                 SI |-> getShort(cc, addrNew + TSS.TASK_SI),
                                 DI |-> getShort(cc, addrNew + TSS.TASK_DI)]]
        \* from the stack registers to the end
        stacked(cc, addrNew, cplOld, selOld) ==
            Only({ Only({ Only({ Only({
                    [(IF fNest THEN setShort(c3, addrNew + TSS.PREV_TSS, selOld) ELSE c3)
                         EXCEPT !.regCR0 = BitOr(@, MSW_TS)] :
                    c3 \in {cpuLoad(c2, "segLDT", getShort(c2, addrNew + TSS.TASK_LDT), FALSE).cpu} }) :
                    c2 \in {setSP(c1, getShort(c1, addrNew + off.SP))} }) :
                    c1 \in {setSS(cc, getShort(cc, addrNew + off.SS))} }) :
                    off \in {stackOffsets(cc.segCS.cpl, cplOld)} })
        \* from the save of the context to the end
        switched(ccArg, addrOld, cplOld, selOld) ==
            Only({ Only({ Only({ Only({ Only({ Only({
                    stacked(c5, cc.segTSS.base, cplOld, selOld) :
                    c5 \in {setCSIP(c4, getShort(c4, cc.segTSS.base + TSS.TASK_IP),
                                    getShort(c4, cc.segTSS.base + TSS.TASK_CS), "null").cpu} }) :
                    c4 \in {cpuLoad(c3, "segDS", getShort(c3, cc.segTSS.base + TSS.TASK_DS), FALSE).cpu} }) :
                    c3 \in {cpuLoad(c2, "segES", getShort(c2, cc.segTSS.base + TSS.TASK_ES), FALSE).cpu} }) :
                    c2 \in {restored(c1, cc.segTSS.base)} }) :
                    c1 \in {saved(cc, addrOld)} }) :
                    cc \in {ccArg} })
        \* from the load of the new TSS to the end
        entered(cc, addrOld, cplOld, selOld) ==
            Only({ IF x.ret = ADDR_INVALID THEN [cpu |-> x.cpu, ok |-> FALSE]
                   ELSE IF fNest /\ x.cpu.segTSS.type = ACC.TYPE.TSS_BUSY
                   THEN [cpu |-> cpuFault(x.cpu, EXCEPTION.GP_FAULT, selNew, TRUE, FALSE), ok |-> FALSE]
                   ELSE [cpu |-> switched(IF fNest THEN setBusy(x.cpu) ELSE x.cpu,
                                          addrOld, cplOld, selOld),
                         ok |-> TRUE] :
                   x \in {cpuLoad(cc, "segTSS", selNew, FALSE)} })
    IN  Only({
            IF ~fNest /\ c.segTSS.type /= ACC.TYPE.TSS_BUSY
            THEN [cpu |-> cpuFault(c, EXCEPTION.TS_FAULT, selNew, TRUE, FALSE), ok |-> FALSE]
            ELSE entered(IF fNest THEN c ELSE clearBusy(c),
                         c.segTSS.base, c.segCS.cpl, c.segTSS.sel) :
            c \in {cArg} })

(***************************************************************************)
(* X86Seg.prototype.loadDesc8(addrDesc, sel, fSuppress) for segCS: the     *)
(* CODE branch, the gate path, then the store of the descriptor.  The      *)
(* asserts of the source do nothing in a release build.                    *)
(***************************************************************************)
loadDesc8CS(cArg, addrDesc, sel, fSuppress) ==
    Only({ Only({
    LET limit == d.limit
        acc == d.acc
        type == BitAnd(acc, ACC.TYPE.MASK)
        base == BitOr(d.base, BitAnd(acc, ACC.BASE1623) * 65536)
        ext == d.ext
        selMasked == BitAnd(sel, SEL.MASK)
        fCall == c.segCS.fCall
        cpl == c.segCS.cpl
        dpl == BitAnd(acc, ACC.DPL.MASK) \div (2 ^ ACC.DPL.SHIFT)
        c0 == [c EXCEPT !.segCS.fStackSwitch = FALSE]
        invalid(cc) == [cpu |-> cc, ret |-> ADDR_INVALID]
        \* the descriptor stored in the register, and updateMode(true)
        loaded(ccArg) ==
            Only({ Only({ [cpu |-> [cc EXCEPT !.segCS = u.seg, !.descMem = u.descMem],
                           ret |-> base] :
                          u \in {updateMode([cc.segCS EXCEPT !.sel = sel, !.base = base,
                                                 !.limit = limit, !.offMax = limit + 1,
                                                 !.acc = acc, !.type = type, !.ext = ext,
                                                 !.addrDesc = addrDesc],
                                            cc.descMem, TRUE, TRUE)} }) :
                   cc \in {ccArg} })
        \* SP and SS popped from the stack
        popped ==
            Only({ Only({ [setSP(setSS(p2.cpu, p2.w), p1.w) EXCEPT !.segCS.fStackSwitch = TRUE] :
                          p2 \in {popWord(p1.cpu)} }) :
                   p1 \in {popWord(c0)} })
        rpl == IF type = ACC.TYPE.GATE_CALL /\ BitAnd(sel, SEL.RPL) < cpl
               THEN cpl ELSE BitAnd(sel, SEL.RPL)
        psCleared == IF type = ACC.TYPE.GATE_INT THEN PS_NT + PS_TF + PS_IF
                     ELSE IF type = ACC.TYPE.GATE_TRAP THEN PS_NT + PS_TF
                     ELSE 0
        nFaultError == IF type = ACC.TYPE.GATE_CALL THEN sel ELSE BitOr(sel, ERRCODE.EXT)
        selCode == BitAnd(base, 65535)
        \* the switch to the stack of the new privilege level
        stackSwitch(cc) ==
            Only({ Only({ Only({ Only({ [c4 EXCEPT !.segCS.fStackSwitch = TRUE] :
                c4 \in {pushWords(c3, << c1.segSS.sel, c1.regSP >> \o Reverse(p.ws))} }) :
                c3 \in {setSP(setSS(c1, getShort(c1, c1.segTSS.base
                                                     + c1.segCS.cpl * 4 + TSS.CPL0_SP + 2)),
                              getShort(c1, c1.segTSS.base + c1.segCS.cpl * 4 + TSS.CPL0_SP))} }) :
                c1 \in {[p.cpu EXCEPT !.segCS.awParms =
                            p.ws \o SubSeq(@, Len(p.ws) + 1, Len(@))]} }) :
                p \in {copyParms(cc, cc.regSP, BitAnd(acc, 31))} })
        masked(cc) == [cc EXCEPT !.regPS = @ - BitAnd(@, psCleared)]
        \* after this.load(selCode, true)
        throughGate(x) ==
            IF x.ret = ADDR_INVALID THEN invalid(x.cpu)
            ELSE Only({ IF c1.segCS.cpl < cpl
                        THEN IF fCall /= "true" THEN invalid(c1)
                             ELSE Only({ [cpu |-> masked(c2), ret |-> c2.segCS.base] :
                                         c2 \in {stackSwitch(c1)} })
                        ELSE [cpu |-> masked(c1), ret |-> c1.segCS.base] :
                        c1 \in {[x.cpu EXCEPT !.regEIP = limit]} })
    IN  IF selMasked /= 0 /\ BitAnd(acc, ACC.PRESENT) = 0
        THEN invalid(cpuFault(c0, EXCEPTION.NP_FAULT, sel, FALSE, fSuppress))
        ELSE IF type >= ACC.TYPE.CODE_EXECONLY
        THEN IF BitAnd(sel, SEL.RPL) > cpl
             THEN IF /\ fCall /= "false"
                     /\ ~ \/ dpl = cpl
                          \/ BitAnd(acc, ACC.TYPE.CONFORMING) /= 0 /\ dpl <= cpl
                  THEN invalid(c0)
                  ELSE loaded(popped)
             ELSE loaded(c0)
        ELSE IF type \in {ACC.TYPE.GATE_CALL, ACC.TYPE.GATE_INT, ACC.TYPE.GATE_TRAP}
        THEN IF rpl <= dpl
             THEN Only({ throughGate(x) : x \in {loadCS(c0, selCode, TRUE)} })
             ELSE invalid(cpuFault(c0, EXCEPTION.GP_FAULT, nFaultError, TRUE, fSuppress))
        ELSE IF type = ACC.TYPE.GATE_TASK
        THEN Only({ IF t.ok THEN [cpu |-> t.cpu, ret |-> t.cpu.segCS.base]
                    ELSE invalid(t.cpu) :
                    t \in {switchTSS(c0, selCode, TRUE)} })
        ELSE invalid(cpuFault(c0, EXCEPTION.GP_FAULT, sel, TRUE, fSuppress)) :
    d \in {getDesc(c.descMem, addrDesc)} }) :
    c \in {cArg} })

\* segCS.load(sel, fSuppress): loadProt, with loadDesc8 on segCS
loadCS(cArg, selArg, fSuppress) ==
    Only({ Only({
           IF f.addrDesc /= ADDR_INVALID
           THEN loadDesc8CS([c EXCEPT !.cycles = IF fSuppress THEN @ ELSE @ + 15],
                            f.addrDesc, BitAnd(selArg, 65535), fSuppress)
           ELSE [cpu |-> [c EXCEPT !.faults = @ \o f.faults], ret |-> ADDR_INVALID] :
           f \in {findDesc(cpuTables(c), BitAnd(selArg, 65535), fSuppress)} }) :
           c \in {cArg} })

\* cpu.setCSIP(off, sel, fCall)
setCSIP(c, off, sel, fCall) ==
    Only({ IF x.ret /= ADDR_INVALID
           THEN [cpu |-> [x.cpu EXCEPT !.regEIP = off], ret |-> x.cpu.segCS.fStackSwitch]
           ELSE [cpu |-> x.cpu, ret |-> "null"] :
           x \in {loadCS([c EXCEPT !.segCS.fCall = fCall], sel, FALSE)} })

(***************************************************************************)
(* X86Seg.prototype.loadIDTProt(nIDT), called on segCS: what loadDesc8     *)
(* returns plus regEIP as it is after the call, whatever loadDesc8 returns. *)
(***************************************************************************)
loadIDTProt(cArg, nIDT) ==
    Only({ IF c.addrIDTLimit - (c.addrIDT + nIDT * 8) >= 7
           THEN Only({ [cpu |-> x.cpu, ret |-> x.ret + x.cpu.regEIP] :
                       x \in {loadDesc8CS(c, c.addrIDT + nIDT * 8, nIDT * 8, FALSE)} })
           ELSE [cpu |-> cpuFault(c, EXCEPTION.GP_FAULT,
                                  BitOr(nIDT * 8, ERRCODE.IDT + ERRCODE.EXT), TRUE, FALSE),
                 ret |-> ADDR_INVALID] :
           c \in {cArg} })

(***************************************************************************)
(* The memory of a protected-mode system around the CPU: a GDT of sixteen  *)
(* descriptors, an LDT of two, two task state segments and the stacks of   *)
(* privilege levels 0 and 3.  A gate descriptor holds the target offset in *)
(* its limit word, the target selector in its base word and the parameter  *)
(* count in the low bits of its acc word.                                  *)
(***************************************************************************)
GDTSel ==
    [CODE0 |-> 8,
     CODE3 |-> 16,
     CONF |-> 24,
     CODE_NP |-> 32,
     STACK0 |-> 40,
     STACK3 |-> 48,
     TSS_A |-> 56,
     TSS_B |-> 64,
     LDTD |-> 72,
     GATE_CALL3 |-> 80,
     GATE_CALL0 |-> 88,
     GATE_INT0 |-> 96,
     GATE_NP |-> 104,
     GATE_TASK |-> 112,
     DATA3 |-> 120]

cpuGDTLimit == addrGDT + 8 * 16 - 1

CODE0 == ACC.PRESENT + ACC.TYPE.CODE_READABLE
CODE3 == ACC.PRESENT + ACC.TYPE.CODE_READABLE + ACC.DPL.MASK + ACC.TYPE.ACCESSED
CODE_CONF == ACC.PRESENT + ACC.TYPE.CODE_READABLE + ACC.TYPE.CONFORMING
CODE_NP == ACC.TYPE.CODE_READABLE + ACC.TYPE.ACCESSED
DATA3 == DATA_RW + ACC.DPL.MASK
SYS_TSS_BUSY == ACC.PRESENT + ACC.TYPE.TSS_BUSY
SYS_LDT == ACC.PRESENT + ACC.TYPE.LDT
Gate(type, dpl, nWords) == ACC.PRESENT + type + dpl * (2 ^ ACC.DPL.SHIFT) + nWords

\* where the gates lead, and the parameters of the call gate
GateOffset == 256
GateWords == 2

addrStack0 == 327680
addrStack3 == 393216
addrTSSA == 458752
addrTSSB == 462848

\* the IDT: an interrupt gate of DPL 0, a trap gate of DPL 3, a task gate
addrIDT == 3072
addrIDTLimit == addrIDT + 8 * 3 - 1

CpuDescMemory ==
    (addrGDT                  :> Desc(0, 0, 0)) @@
    (addrGDT + GDTSel.CODE0      :> Desc(SegLimit, 65536, CODE0)) @@
    (addrGDT + GDTSel.CODE3      :> Desc(SegLimit, 131072, CODE3)) @@
    (addrGDT + GDTSel.CONF       :> Desc(SegLimit, 196608, CODE_CONF)) @@
    (addrGDT + GDTSel.CODE_NP    :> Desc(SegLimit, 262144, CODE_NP)) @@
    (addrGDT + GDTSel.STACK0     :> Desc(SegLimit, addrStack0, DATA_RW)) @@
    (addrGDT + GDTSel.STACK3     :> Desc(SegLimit, addrStack3, DATA3)) @@
    (addrGDT + GDTSel.TSS_A      :> Desc(43, addrTSSA, SYS_TSS_BUSY)) @@
    (addrGDT + GDTSel.TSS_B      :> Desc(43, addrTSSB, SYS_TSS)) @@
    (addrGDT + GDTSel.LDTD       :> Desc(segLDT.limit - 1, segLDT.base, SYS_LDT)) @@
    (addrGDT + GDTSel.GATE_CALL3 :> Desc(GateOffset, GDTSel.CODE0, Gate(ACC.TYPE.GATE_CALL, 3, GateWords))) @@
    (addrGDT + GDTSel.GATE_CALL0 :> Desc(GateOffset, GDTSel.CODE0, Gate(ACC.TYPE.GATE_CALL, 0, 0))) @@
    (addrGDT + GDTSel.GATE_INT0  :> Desc(GateOffset, GDTSel.CODE0, Gate(ACC.TYPE.GATE_INT, 0, 0))) @@
    (addrGDT + GDTSel.GATE_NP    :> Desc(GateOffset, GDTSel.CODE_NP, Gate(ACC.TYPE.GATE_CALL, 3, 0))) @@
    (addrGDT + GDTSel.GATE_TASK  :> Desc(0, GDTSel.TSS_B, Gate(ACC.TYPE.GATE_TASK, 3, 0))) @@
    (addrGDT + GDTSel.DATA3      :> Desc(SegLimit, 524288, DATA3)) @@
    (addrIDT                  :> Desc(GateOffset, GDTSel.CODE0, Gate(ACC.TYPE.GATE_INT, 0, 0))) @@
    (addrIDT + 8              :> Desc(GateOffset, GDTSel.CODE0, Gate(ACC.TYPE.GATE_TRAP, 3, 0))) @@
    (addrIDT + 16             :> Desc(0, GDTSel.TSS_B, Gate(ACC.TYPE.GATE_TASK, 0, 0))) @@
    (addrIDT + 24             :> Desc(GateOffset, GDTSel.CODE0, Gate(ACC.TYPE.GATE_INT, 0, 0))) @@
    (segLDT.base              :> Desc(SegLimit, 589824, CODE3)) @@
    (segLDT.base + 8          :> Desc(SegLimit, 655360, DATA3))

\* the bytes of the words ws from addr on
Words(addr, ws) ==
    [a \in addr .. addr + 2 * Len(ws) - 1 |->
        IF (a - addr) % 2 = 0 THEN ws[(a - addr) \div 2 + 1] % 256
        ELSE ws[(a - addr) \div 2 + 1] \div 256]

\* the two parameters the user code has pushed, and the stack pointers
Parm1 == 4369
Parm2 == 8738
StackTop == 2 * ((SegLimit + 1) \div 2)
UserSP == StackTop - 8

\* a task state segment: back link, the stacks of levels 0 to 2, then the
\* task's IP, PS, AX to DI (SP among them), ES, CS, SS, DS and LDT
TSSWords(ip, sp, cs, ss) ==
    << 0, StackTop, GDTSel.STACK0, StackTop, GDTSel.STACK0, StackTop, GDTSel.STACK0,
       ip, 2, 0, 0, 0, 0, sp, 0, 0, 0, GDTSel.DATA3, cs, ss, GDTSel.DATA3, GDTSel.LDTD >>

\* the kernel's stack holds the SP and SS of the user code it is to return to;
\* task B was suspended with one word on its stack
CpuMemory ==
    Words(addrStack0, [i \in 1 .. StackTop \div 2 |->
                          IF i = StackTop \div 2 - 1 THEN UserSP
                          ELSE IF i = StackTop \div 2 THEN GDTSel.STACK3 + 3
                          ELSE 0]) @@
    Words(addrStack3, [i \in 1 .. StackTop \div 2 |->
                          IF i = UserSP \div 2 + 1 THEN Parm1
                          ELSE IF i = UserSP \div 2 + 2 THEN Parm2
                          ELSE 0]) @@
    Words(addrTSSA, TSSWords(0, StackTop, GDTSel.CODE0, GDTSel.STACK0)) @@
    Words(addrTSSB, TSSWords(GateOffset, StackTop - 2, GDTSel.CODE0, GDTSel.STACK0))

\* the CPU after its segment registers were built and protected mode entered
CpuReset ==
    LET prot(id) == updateMode(X86Seg(id), CpuDescMemory, FALSE, TRUE).seg
    IN  [segCS |-> prot(ID.CODE), segSS |-> prot(ID.STACK), segDS |-> prot(ID.DATA),
         segES |-> prot(ID.DATA), segTSS |-> prot(ID.TSS), segLDT |-> prot(ID.LDT),
         addrGDT |-> addrGDT, addrGDTLimit |-> cpuGDTLimit,
         addrIDT |-> addrIDT, addrIDTLimit |-> addrIDTLimit,
         descMem |-> CpuDescMemory, mem |-> CpuMemory,
         regSP |-> StackTop - 4, regPS |-> PS_IF + 2, regEIP |-> 0,
         regs |-> [AX |-> 0, CX |-> 0, DX |-> 0, BX |-> 0, BP |-> 0, SI |-> 0, DI |-> 0],
         regCR0 |-> 1, faults |-> << >>, cycles |-> 0]

\* what one operation leaves behind, forgotten before the next
Fresh(c) == [c EXCEPT !.faults = << >>, !.cycles = 0]

\* the kernel at privilege level 0 in task A, its registers loaded
Kernel ==
    Only({ Only({ Only({ Only({ Only({
        Fresh(setCSIP(c5, 0, GDTSel.CODE0, "null").cpu) :
        c5 \in {cpuLoad(c4, "segES", GDTSel.DATA3, FALSE).cpu} }) :
        c4 \in {cpuLoad(c3, "segDS", GDTSel.DATA3, FALSE).cpu} }) :
        c3 \in {setSS(c2, GDTSel.STACK0)} }) :
        c2 \in {cpuLoad(c1, "segTSS", GDTSel.TSS_A, FALSE).cpu} }) :
        c1 \in {cpuLoad(CpuReset, "segLDT", GDTSel.LDTD, FALSE).cpu} })

\* the user code at privilege level 3 the kernel has returned to
User == Fresh(setCSIP(Kernel, 0, GDTSel.CODE3 + 3, "false").cpu)

(***************************************************************************)
(* The segment register as a state machine.                                *)
(***************************************************************************)
NoSegOp ==
    [op |-> "none", sel |-> 0, off |-> 0, cb |-> 0, fSuppress |-> FALSE, fProt |-> FALSE]

\* a machine of which only the bus has been built: no segment register yet
SegIdle ==
    /\ seg = Unset
    /\ fProtMode = FALSE
    /\ descMem = Unset
    /\ segOp = Unset
    /\ segRet = Unset
    /\ faults = << >>
    /\ cpu = Unset

\* a CPU in real mode with its data or its stack segment register
SegInit ==
    /\ seg \in {X86Seg(ID.DATA), X86Seg(ID.STACK)}
    /\ fProtMode = FALSE
    /\ descMem = DescMemory
    /\ segOp = NoSegOp
    /\ segRet = [ret |-> 0, cycles |-> 0]
    /\ faults = << >>
    /\ cpu = Unset

\* seg.load(sel, fSuppress)
Load ==
    \E sel \in (IF seg.load = "loadReal" THEN RealSelectors ELSE Selectors),
       fSuppress \in BOOLEAN :
        \E r \in {load(seg, descMem, fProtMode, sel, fSuppress)} :
            /\ seg' = r.seg
            /\ descMem' = r.descMem
            /\ segOp' = [NoSegOp EXCEPT !.op = "load", !.sel = sel,
                                        !.fSuppress = fSuppress]
            /\ segRet' = [ret |-> r.ret, cycles |-> r.cycles]
            /\ faults' = r.faults
            /\ UNCHANGED << fProtMode, cpu >>

\* seg.checkRead(off, cb, fSuppress)
CheckRead ==
    \E off \in CheckOffsets, cb \in CheckSizes, fSuppress \in BOOLEAN :
        \E r \in {checkRead(seg, off, cb, fSuppress)} :
            /\ segOp' = [NoSegOp EXCEPT !.op = "checkRead", !.off = off, !.cb = cb,
                                        !.fSuppress = fSuppress]
            /\ segRet' = [ret |-> r.ret, cycles |-> 0]
            /\ faults' = r.faults
            /\ UNCHANGED << seg, fProtMode, descMem, cpu >>

\* seg.checkWrite(off, cb, fSuppress)
CheckWrite ==
    \E off \in CheckOffsets, cb \in CheckSizes, fSuppress \in BOOLEAN :
        \E r \in {checkWrite(seg, off, cb, fSuppress)} :
            /\ segOp' = [NoSegOp EXCEPT !.op = "checkWrite", !.off = off, !.cb = cb,
                                        !.fSuppress = fSuppress]
            /\ segRet' = [ret |-> r.ret, cycles |-> 0]
            /\ faults' = r.faults
            /\ UNCHANGED << seg, fProtMode, descMem, cpu >>

\* the CPU changes mode: seg.updateMode(false, fProt)
UpdateMode ==
    \E fProt \in BOOLEAN :
        \E r \in {updateMode(seg, descMem, FALSE, fProt)} :
            /\ seg' = r.seg
            /\ descMem' = r.descMem
            /\ fProtMode' = fProt
            /\ segOp' = [NoSegOp EXCEPT !.op = "updateMode", !.fProt = fProt]
            /\ segRet' = [ret |-> 0, cycles |-> 0]
            /\ faults' = << >>
            /\ UNCHANGED cpu

\* a second machine is built and resumes from the saved register: its register
\* is constructed, restore(seg.save()) is applied to it, and the CPU either
\* sets the mode of the saved machine (updateMode(false, fProt)) or has not yet
Restore ==
    \E fUpdate \in BOOLEAN :
        \E r \in {restore(X86Seg(seg.id), save(seg))} :
            /\ segOp' = [NoSegOp EXCEPT !.op = IF fUpdate THEN "restore, updateMode"
                                                ELSE "restore",
                                        !.fProt = fProtMode]
            /\ segRet' = [ret |-> IF fUpdate
                                  THEN updateMode(r, descMem, FALSE, fProtMode).seg
                                  ELSE r,
                          cycles |-> 0]
            /\ faults' = << >>
            /\ UNCHANGED << seg, fProtMode, descMem, cpu >>

(***************************************************************************)
(* The CPU as a state machine: control transfers and task switches.        *)
(***************************************************************************)
\* the operations a run of the CPU makes
MaxOps == 2

\* the selectors control is transferred to
CSSelectors ==
    {GDTSel.CODE0, GDTSel.CODE0 + 3, GDTSel.CODE3 + 3, GDTSel.CONF + 3, GDTSel.CODE_NP,
     GDTSel.GATE_CALL3 + 3, GDTSel.GATE_CALL0, GDTSel.GATE_INT0, GDTSel.GATE_NP, GDTSel.GATE_TASK,
     GDTSel.STACK0, SEL.LDT + 3}
FCalls == {"null", "true", "false"}

\* the vectors taken: the three of the IDT and the one behind its limit
Vectors == 0 .. 3

NoCpuOp ==
    [op |-> "none", sel |-> 0, fCall |-> "null", fSuppress |-> FALSE, fNest |-> FALSE,
     n |-> 0]

CpuInit ==
    /\ cpu \in {Kernel, User}
    /\ seg = Unset
    /\ fProtMode = TRUE
    /\ descMem = Unset
    /\ segOp = NoCpuOp
    /\ segRet = [ret |-> 0, cycles |-> 0]
    /\ faults = << >>

\* the CPU sets segCS.fCall, then calls segCS.load(sel, fSuppress)
LoadCS ==
    /\ segOp.n < MaxOps
    /\ \E sel \in CSSelectors, fCall \in FCalls, fSuppress \in BOOLEAN :
        \E r \in {loadCS([Fresh(cpu) EXCEPT !.segCS.fCall = fCall], sel, fSuppress)} :
            /\ cpu' = r.cpu
            /\ segOp' = [NoCpuOp EXCEPT !.op = "load", !.sel = sel, !.fCall = fCall,
                                        !.fSuppress = fSuppress, !.n = segOp.n + 1]
            /\ segRet' = [ret |-> r.ret, cycles |-> r.cpu.cycles]
            /\ UNCHANGED << seg, fProtMode, descMem, faults >>

\* segCS.switchTSS(selNew, fNest)
SwitchTSS ==
    /\ segOp.n < MaxOps
    /\ \E selNew \in {GDTSel.TSS_A, GDTSel.TSS_B, GDTSel.CODE0}, fNest \in BOOLEAN :
        \E r \in {switchTSS(Fresh(cpu), selNew, fNest)} :
            /\ cpu' = r.cpu
            /\ segOp' = [NoCpuOp EXCEPT !.op = "switchTSS", !.sel = selNew,
                                        !.fNest = fNest, !.n = segOp.n + 1]
            /\ segRet' = [ret |-> r.ok, cycles |-> r.cpu.cycles]
            /\ UNCHANGED << seg, fProtMode, descMem, faults >>

\* segCS.loadIDT(nIDT), with segCS.fCall as the last transfer has left it
LoadIDT ==
    /\ segOp.n < MaxOps
    /\ \E nIDT \in Vectors, fCall \in FCalls :
        \E r \in {loadIDTProt([Fresh(cpu) EXCEPT !.segCS.fCall = fCall], nIDT)} :
            /\ cpu' = r.cpu
            /\ segOp' = [NoCpuOp EXCEPT !.op = "loadIDT", !.sel = nIDT * 8, !.fCall = fCall,
                                        !.n = segOp.n + 1]
            /\ segRet' = [ret |-> r.ret, cycles |-> r.cpu.cycles]
            /\ UNCHANGED << seg, fProtMode, descMem, faults >>

(***************************************************************************)
(* The debugger (DbgIO): the break tables, the bus trap callbacks and the  *)
(* clock.  A number of a break table is held as the pair                   *)
(* << n div 2^32, n mod 2^32 >> and a cleared slot (undefined) as << >>:   *)
(* a disabled entry is a bus address plus 2^32.                            *)
(***************************************************************************)
VARIABLES
    dbg,        \* DbgIO: aBreakReadAddr, aBreadWriteAddr, historyBuffer, historyNext
    fRunning,   \* the clock of the machine (time): running or stopped
    regPC,      \* cpu.regPC
    dbgOp,      \* the last debugger command or CPU access, with what it printed
    issued,     \* the breakpoints the debugger has reported set, as it reported them
    executed    \* the addresses of the instructions executed since history was set

dbgVars == << dbg, fRunning, regPC, dbgOp, issued, executed >>

\* the most break addresses held at once in the machines explored
MaxBreaks == 2

Hole == << >>
Num(n) == << 0, n >>
\* x >>> 0 of a number below 2^33
ToUint32(x) == x[2]
\* u + NumIO.TWO_POW32, u a uint32
PlusPow32(u) == << 1, u >>
\* x < NumIO.TWO_POW32; undefined compares false
BelowPow32(x) == x /= Hole /\ x[1] = 0
\* (x - NumIO.TWO_POW32)|0 for x of 2^32 and more; undefined gives NaN|0
MinusPow32(x) == IF x = Hole THEN Num(0) ELSE Num(ToInt32(ToUint32(x)))

\* Array.prototype.indexOf on a 1-based sequence holding a 0-based array
RECURSIVE indexOfFrom(_, _, _)
indexOfFrom(a, x, i) ==
    IF i >= Len(a) THEN -1
    ELSE IF a[i + 1] = x THEN i
    ELSE indexOfFrom(a, x, i + 1)

indexOf(a, x) == indexOfFrom(a, x, 0)

\* a[i], undefined beyond the length
At(a, i) == IF i >= 0 /\ i < Len(a) THEN a[i + 1] ELSE Hole

\* a[i] = x, the array growing with holes up to i
Put(a, i, x) ==
    [k \in 1 .. (IF Len(a) > i THEN Len(a) ELSE i + 1) |->
        IF k = i + 1 THEN x ELSE At(a, k - 1)]

\* addBreak appending whatever slots are free
addBreak_Append(aBreakAddr, off) ==
    LET i == indexOf(aBreakAddr, Num(off))
        j == IF i < 0 THEN indexOf(aBreakAddr, PlusPow32(ToUint32(Num(off)))) ELSE i
    IN  IF j >= 0 THEN [table |-> aBreakAddr, i |-> -(j + 1)]
        ELSE [table |-> Put(aBreakAddr, Len(aBreakAddr), Num(off)), i |-> Len(aBreakAddr)]

\* addBreak(aBreakAddr, address): the index of the slot taken, or -(i + 1) when
\* slot i holds the address already, enabled or disabled
addBreak(aBreakAddr, off) ==
    LET i == indexOf(aBreakAddr, Num(off))
        j == IF i < 0 THEN indexOf(aBreakAddr, PlusPow32(ToUint32(Num(off)))) ELSE i
        k == indexOf(aBreakAddr, Hole)
        slot == IF k < 0 THEN Len(aBreakAddr) ELSE k
    IN  IF j >= 0 THEN [table |-> aBreakAddr, i |-> -(j + 1)]
        ELSE [table |-> Put(aBreakAddr, slot, Num(off)), i |-> slot]

\* the table and the slot an index names: the read table first, the write table
\* after the length of the read table
fWriteIndex(d, index) == index >= Len(d.aBreakReadAddr)
slotIndex(d, index) ==
    IF fWriteIndex(d, index) THEN index - Len(d.aBreakReadAddr) ELSE index
slotTable(d, index) ==
    IF fWriteIndex(d, index) THEN d.aBreadWriteAddr ELSE d.aBreakReadAddr
slotAddr(d, index) == At(slotTable(d, index), slotIndex(d, index))

\* one line of what a command prints
Line(index, cmd, addr, text) == [index |-> index, cmd |-> cmd, addr |-> addr, text |-> text]

\* setBreak(address, write)
setBreak(d, bs, ms, off, write) ==
    LET cmd == IF write THEN "bw" ELSE "br"
        a == addBreak(IF write THEN d.aBreadWriteAddr ELSE d.aBreakReadAddr, off)
        d2 == IF write THEN [d EXCEPT !.aBreadWriteAddr = a.table]
                       ELSE [d EXCEPT !.aBreakReadAddr = a.table]
    IN  IF a.i >= 0
        THEN [dbg |-> d2,
              mem |-> IF write THEN trapWrite(bs, ms, off, "writeBusCheck").mem
                               ELSE trapRead(bs, ms, off, "readBusCheck").mem,
              result |-> << Line(IF write THEN a.i + Len(d2.aBreakReadAddr) ELSE a.i,
                                 cmd, Num(off), "set") >>]
        ELSE [dbg |-> d2, mem |-> ms,
              result |-> << Line(-1, cmd, Num(off), "already set") >>]

\* isEmpty of clearBreak
isEmpty(aBreakAddr) == \A i \in 1 .. Len(aBreakAddr) : aBreakAddr[i] = Hole

\* clearBreak(index) for one index (index >= -1)
clearBreakAt(d, bs, ms, index) ==
    LET fWrite == fWriteIndex(d, index)
        i == slotIndex(d, index)
        aBreakAddr == slotTable(d, index)
        addr == slotAddr(d, index)
    IN  IF i < 0 THEN [dbg |-> d, mem |-> ms, result |-> << Line(index, "", Hole, "missing break index") >>]
        ELSE IF addr = Hole
        THEN [dbg |-> d, mem |-> ms, result |-> << Line(index, "", Hole, "invalid break index") >>]
        ELSE IF ~fWrite
        THEN LET u == untrapRead(bs, ms, ToUint32(addr), "readBusCheck")
             IN  IF u.ret
                 THEN [dbg |-> [d EXCEPT !.aBreakReadAddr = Put(aBreakAddr, i, Hole)],
                       mem |-> u.mem,
                       result |-> << Line(index, "br", addr, "cleared") >>]
                 ELSE [dbg |-> d, mem |-> u.mem,
                       result |-> << Line(index, "", addr, "invalid break address") >>]
        ELSE LET u == untrapWrite(bs, ms, ToUint32(addr), "writeBusCheck")
                 w == Put(aBreakAddr, i, Hole)
             IN  IF u.ret
                 THEN [dbg |-> [d EXCEPT
                                  !.aBreadWriteAddr = IF isEmpty(w) THEN << >> ELSE w,
                                  !.aBreakReadAddr =
                                      IF isEmpty(w) /\ isEmpty(@) THEN << >> ELSE @],
                       mem |-> u.mem,
                       result |-> << Line(index, "bw", addr, "cleared") >>]
                 ELSE [dbg |-> d, mem |-> u.mem,
                       result |-> << Line(index, "", addr, "invalid break address") >>]

\* enableBreak(index, enable) for one index (index >= -1)
enableBreakAt(d, index, enable) ==
    LET fWrite == fWriteIndex(d, index)
        i == slotIndex(d, index)
        cmd == IF fWrite THEN "bw" ELSE "br"
        aBreakAddr == slotTable(d, index)
        addr == slotAddr(d, index)
        below == BelowPow32(addr)
        addrPrint == IF below THEN addr ELSE MinusPow32(addr)
        success == IF below THEN ~enable ELSE enable
        addrNew == IF below THEN PlusPow32(ToUint32(addr)) ELSE addrPrint
        table == Put(aBreakAddr, i, addrNew)
    IN  IF index < 0 \/ i < 0
        THEN [dbg |-> d, result |-> << Line(index, "", Hole, "missing break index") >>]
        ELSE IF ~success
        THEN [dbg |-> d,
              result |-> << Line(index, cmd, addrPrint,
                                 IF enable THEN "already enabled" ELSE "already disabled") >>]
        ELSE [dbg |-> IF fWrite THEN [d EXCEPT !.aBreadWriteAddr = table]
                                ELSE [d EXCEPT !.aBreakReadAddr = table],
              result |-> << Line(index, cmd, addrPrint,
                                 IF enable THEN "enabled" ELSE "disabled") >>]

\* enumBreak(func) with func = clearBreak: the slots in use of the read table,
\* then those of the write table, each under the index it has when it is visited
RECURSIVE enumClear(_, _, _, _, _, _, _)
enumClear(d, bs, ms, table, index, i, result) ==
    IF i >= Len(table) THEN [dbg |-> d, mem |-> ms, result |-> result]
    ELSE IF table[i + 1] = Hole
    THEN enumClear(d, bs, ms, table, index, i + 1, result)
    ELSE LET r == clearBreakAt(d, bs, ms, index + i)
         IN  enumClear(r.dbg, bs, r.mem, table, index, i + 1, result \o r.result)

\* clearBreak(index)
clearBreak(d, bs, ms, index) ==
    IF index < -1
    THEN LET r == enumClear(d, bs, ms, d.aBreakReadAddr, 0, 0, << >>)
         IN  enumClear(r.dbg, bs, r.mem, r.dbg.aBreadWriteAddr,
                       Len(r.dbg.aBreakReadAddr), 0, r.result)
    ELSE clearBreakAt(d, bs, ms, index)

RECURSIVE enumEnable(_, _, _, _, _, _)
enumEnable(d, table, index, i, enable, result) ==
    IF i >= Len(table) THEN [dbg |-> d, result |-> result]
    ELSE IF table[i + 1] = Hole THEN enumEnable(d, table, index, i + 1, enable, result)
    ELSE LET r == enableBreakAt(d, index + i, enable)
         IN  enumEnable(r.dbg, table, index, i + 1, enable, result \o r.result)

\* enableBreak(index, enable)
enableBreak(d, index, enable) ==
    IF index < -1
    THEN LET r == enumEnable(d, d.aBreakReadAddr, 0, 0, enable, << >>)
         IN  enumEnable(r.dbg, r.dbg.aBreadWriteAddr, Len(r.dbg.aBreakReadAddr), 0,
                        enable, r.result)
    ELSE enableBreakAt(d, index, enable)

\* listBreakAddr of listBreak: every line is printed as a "br"
RECURSIVE listBreakAddr(_, _, _, _)
listBreakAddr(aBreakAddrs, index, offset, i) ==
    IF i >= Len(aBreakAddrs) THEN << >>
    ELSE LET addr == aBreakAddrs[i + 1]
             rest == listBreakAddr(aBreakAddrs, index, offset, i + 1)
         IN  IF addr = Hole \/ ~(index < 0 \/ index = i + offset) THEN rest
             ELSE IF BelowPow32(addr)
             THEN << Line(i + offset, "br", addr, "enabled") >> \o rest
             ELSE << Line(i + offset, "br", MinusPow32(addr), "disabled") >> \o rest

\* listBreak(index)
listBreak(d, index) ==
    LET result == listBreakAddr(d.aBreakReadAddr, index, 0, 0)
                  \o listBreakAddr(d.aBreadWriteAddr, index, Len(d.aBreakReadAddr), 0)
    IN  IF result = << >> THEN << Line(index, "", Hole, "no break addresses found") >>
        ELSE result

\* the addresses a table holds, enabled or disabled
Held(table) == {ToUint32(table[i]) : i \in {k \in 1 .. Len(table) : table[k] /= Hole}}
TableOf(d, write) == IF write THEN d.aBreadWriteAddr ELSE d.aBreakReadAddr

\* stopCPU(message): what is printed, and whether the clock is told to stop
stopCPU(d, message) ==
    IF d.fBreakException THEN [thrown |-> message, printed |-> "", stop |-> FALSE]
    ELSE [thrown |-> "", printed |-> message, stop |-> TRUE]

NoStop == [thrown |-> "", printed |-> "", stop |-> FALSE]

\* checkBusRead stopping the clock for every address of a trapped block
checkBusRead_AnyAddress(d, pc, addr, value) ==
    [dbg |-> d, stop |-> stopCPU(d, "read break")]

\* checkBusRead advancing historyNext without going round
checkBusRead_NoWrap(d, pc, addr, value) ==
    LET fHistory == Len(d.historyBuffer) /= 0 /\ addr /= Undefined /\ addr = pc
    IN  [dbg |-> IF fHistory
                 THEN [d EXCEPT !.historyBuffer = Put(@, d.historyNext, addr),
                                !.historyNext = d.historyNext + 1]
                 ELSE d,
         stop |-> NoStop]

\* checkBusRead(addr, value): the callback of every read trap of the debugger;
\* addr is NaN (Undefined) when the block has no address
checkBusRead(d, pc, addr, value) ==
    LET fHistory == Len(d.historyBuffer) /= 0 /\ addr /= Undefined /\ addr = pc
        next == d.historyNext + 1
        d2 == IF fHistory
              THEN [d EXCEPT !.historyBuffer = Put(@, d.historyNext, addr),
                             !.historyNext = IF next = Len(d.historyBuffer) THEN 0 ELSE next]
              ELSE d
    IN  [dbg |-> d2,
         stop |-> IF addr /= Undefined /\ indexOf(d.aBreakReadAddr, Num(addr)) >= 0
                  THEN stopCPU(d, "read break") ELSE NoStop]

\* checkBusWrite taking a disabled entry for its address
checkBusWrite_Disabled(d, addr, value) ==
    [dbg |-> d,
     stop |-> IF addr /= Undefined /\ addr \in Held(d.aBreadWriteAddr)
              THEN stopCPU(d, "write break") ELSE NoStop]

\* checkBusWrite(addr, value): the callback of every write trap of the debugger
checkBusWrite(d, addr, value) ==
    [dbg |-> d,
     stop |-> IF addr /= Undefined /\ indexOf(d.aBreadWriteAddr, Num(addr)) >= 0
              THEN stopCPU(d, "write break") ELSE NoStop]

\* time.start() and time.stop(): whether the clock changed state
timeStart(running) == [running |-> TRUE, ret |-> ~running]
timeStop(running) == [running |-> FALSE, ret |-> running]

(***************************************************************************)
(* The debugger as a state machine: one action per command, and the        *)
(* accesses of the running CPU with the trap callbacks they invoke.        *)
(***************************************************************************)
\* new DbgIO(...)
constructorDbg ==
    [aBreakReadAddr |-> << >>, aBreadWriteAddr |-> << >>,
     historyBuffer |-> << >>, historyNext |-> 0,
     fBreakException |-> FALSE, maxOpLength |-> 1,
     nDefaultBase |-> 16, nDefaultBits |-> addrWidth]

Cmd(op, arg, flag, result, stop) ==
    [op |-> op, arg |-> arg, flag |-> flag, result |-> result, stop |-> stop]

DbgIdle ==
    /\ dbg = constructorDbg
    /\ fRunning = FALSE
    /\ regPC = 0
    /\ dbgOp = Cmd("constructor", 0, FALSE, << >>, NoStop)
    /\ issued = {}
    /\ executed = << >>

\* a machine with RAM over the whole bus and the debugger attached
RamMachine == addBlocks(constructor.blocks, constructor.mem, 0, addrTotal, TYPE.RAM, NoBlock)

DbgInit ==
    /\ blocks = RamMachine.blocks
    /\ mem = RamMachine.mem
    /\ busOp = NoOp
    /\ busRet = Ret(TRUE, 0, << >>)
    /\ trapLog = << >>
    /\ DbgIdle

\* the breakpoints reported set and not cleared since
Reported(d, set) == {h \in set : h.off \in Held(TableOf(d, h.write))}
Handle(line, write, by) ==
    [index |-> line.index, write |-> write, off |-> ToUint32(line.addr), by |-> by]

\* the break tables stay within MaxBreaks slots in all
Slots(d) == Len(d.aBreakReadAddr) + Len(d.aBreadWriteAddr)

\* the indexes typed with bc, bd, be and bl: `*` is -2, nothing is -1, and the
\* indexes up to the first one past the tables
Handles == -2 .. Slots(dbg)

\* the addresses break commands name: two of one block and one of the next
BreakAddrs == {0, 1, blockSize}
\* the addresses the CPU accesses: those, and one that is never a break address
CpuAddrs == BreakAddrs \cup {blockSize + 1}

\* br addr, bw addr
SetBreak ==
    \E off \in BreakAddrs, write \in BOOLEAN :
        \E r \in {setBreak(dbg, blocks, mem, off, write)} :
            /\ Slots(r.dbg) <= MaxBreaks
            /\ dbg' = r.dbg
            /\ mem' = r.mem
            /\ dbgOp' = Cmd(IF write THEN "bw" ELSE "br", off, write, r.result, NoStop)
            /\ issued' = Reported(r.dbg, issued \cup
                              IF r.result[1].text = "set"
                              THEN {Handle(r.result[1], write, "b")} ELSE {})
            /\ UNCHANGED << blocks, busOp, busRet, trapLog, fRunning, regPC, executed >>

\* bc n, bc *
ClearBreak ==
    \E index \in Handles :
        \E r \in {clearBreak(dbg, blocks, mem, index)} :
            /\ dbg' = r.dbg
            /\ mem' = r.mem
            /\ dbgOp' = Cmd("bc", index, FALSE, r.result, NoStop)
            /\ issued' = Reported(r.dbg, issued)
            /\ UNCHANGED << blocks, busOp, busRet, trapLog, fRunning, regPC, executed >>

\* bd n, be n with the index of a slot in use, bd *, be *, and bd, be alone
EnableBreak ==
    \E index \in Handles, enable \in BOOLEAN :
        \E r \in {enableBreak(dbg, index, enable)} :
            /\ index < 0 \/ slotAddr(dbg, index) /= Hole
            /\ dbg' = r.dbg
            /\ dbgOp' = Cmd(IF enable THEN "be" ELSE "bd", index, enable, r.result, NoStop)
            /\ issued' = Reported(r.dbg, issued)
            /\ UNCHANGED << busVars, fRunning, regPC, executed >>

\* bd n, be n with the index of a slot that is cleared, or of the first slot
\* past the tables, which was never set
EnableCleared ==
    \E index \in 0 .. Slots(dbg), enable \in BOOLEAN :
        \E r \in {enableBreak(dbg, index, enable)} :
            /\ slotAddr(dbg, index) = Hole
            /\ Slots(r.dbg) <= MaxBreaks
            /\ dbg' = r.dbg
            /\ dbgOp' = Cmd(IF enable THEN "be" ELSE "bd", index, enable, r.result, NoStop)
            /\ issued' = Reported(r.dbg, issued)
            /\ UNCHANGED << busVars, fRunning, regPC, executed >>

\* bl, bl n
ListBreak ==
    \E index \in Handles \ {-2} :
        /\ dbgOp' = Cmd("bl", index, FALSE, listBreak(dbg, index), NoStop)
        /\ UNCHANGED << busVars, dbg, fRunning, regPC, issued, executed >>

\* g, g addr
Go ==
    \E off \in BreakAddrs \cup {Undefined} :
        \E t \in {timeStart(fRunning)} :
            \E r \in {IF t.ret /\ off /= Undefined
                       THEN setBreak(dbg, blocks, mem, off, FALSE)
                       ELSE [dbg |-> dbg, mem |-> mem, result |-> << >>]} :
                /\ Slots(r.dbg) <= MaxBreaks
                /\ fRunning' = t.running
                /\ dbg' = r.dbg
                /\ mem' = r.mem
                /\ dbgOp' = Cmd("g", off, FALSE,
                                IF t.ret THEN << >>
                                ELSE << Line(-1, "", Hole, "already started") >>, NoStop)
                /\ issued' = Reported(r.dbg, issued \cup
                                  IF r.result /= << >> /\ r.result[1].text = "set"
                                  THEN {Handle(r.result[1], FALSE, "g")} ELSE {})
                /\ UNCHANGED << blocks, busOp, busRet, trapLog, regPC, executed >>

\* h
Halt ==
    \E t \in {timeStop(fRunning)} :
        /\ fRunning' = t.running
        /\ dbgOp' = Cmd("h", 0, FALSE,
                        IF t.ret THEN << >> ELSE << Line(-1, "", Hole, "already stopped") >>,
                        NoStop)
        /\ UNCHANGED << busVars, dbg, regPC, issued, executed >>

\* the running CPU reads a byte: busMemory.readData(addr), the debugger's
\* callback running inside it when the block is trapped
CpuRead ==
    \E addr \in CpuAddrs :
        \E r \in {readData(blocks, mem, addr)} :
            \E c \in {IF r.log = << >> THEN [dbg |-> dbg, stop |-> NoStop]
                       ELSE checkBusRead(dbg, regPC, r.log[1].addr, r.log[1].value)} :
                /\ fRunning
                /\ dbg' = c.dbg
                /\ fRunning' = IF c.stop.stop THEN timeStop(fRunning).running ELSE fRunning
                /\ dbgOp' = Cmd("readData", addr, FALSE, r.log, c.stop)
                /\ UNCHANGED << busVars, regPC, issued, executed >>

\* the running CPU writes a byte: busMemory.writeData(addr, value)
CpuWrite ==
    \E addr \in CpuAddrs, value \in {0} :
        \E r \in {writeData(blocks, mem, addr, value)} :
            \E c \in {IF r.log = << >> THEN [dbg |-> dbg, stop |-> NoStop]
                       ELSE checkBusWrite(dbg, r.log[1].addr, r.log[1].value)} :
                /\ fRunning
                /\ mem' = r.mem
                /\ dbg' = c.dbg
                /\ fRunning' = IF c.stop.stop THEN timeStop(fRunning).running ELSE fRunning
                /\ dbgOp' = Cmd("writeData", addr, TRUE, r.log, c.stop)
                /\ UNCHANGED << blocks, busOp, busRet, trapLog, regPC, issued, executed >>

(***************************************************************************)
(* The debugger's instruction history: sh, dh and the CPU's fetches.       *)
(***************************************************************************)
\* DbgIO.HISTORY_LIMIT, scaled down from 100000
HistoryLimit == 12
\* the records of the histories explored, at most
MaxSteps == 3
\* the length dumpHistory lists when it is given none
DefaultLength == 10

\* the callback enableHistory gives enumBlocks: a read trap, or an untrap, for
\* every address of the block
RECURSIVE historyTraps(_, _, _, _, _, _)
historyTraps(bs, ms, addr, off, size, enable) ==
    IF ~(off < size) THEN ms
    ELSE historyTraps(bs,
                      IF enable THEN trapRead(bs, ms, addr, "readBusCheck").mem
                      ELSE untrapRead(bs, ms, addr, "readBusCheck").mem,
                      addr + 1, off + 1, size, enable)

RECURSIVE historyBlocks(_, _, _, _, _)
historyBlocks(bs, ms, called, k, enable) ==
    IF k > Len(called) THEN ms
    ELSE historyBlocks(bs,
                       historyTraps(bs, ms, ms[called[k]].addr, 0, ms[called[k]].size, enable),
                       called, k + 1, enable)

\* enableHistory(enable), enable a boolean
enableHistory(d, bs, ms, enable) ==
    LET e == enumBlocks(bs, ms, TYPE.ROM + TYPE.RAM)
        cBlocks == e.ret
    IN  [dbg |-> IF cBlocks /= 0
                 THEN [d EXCEPT !.historyNext = 0,
                                !.historyBuffer =
                                    IF enable THEN [i \in 1 .. HistoryLimit |-> Undefined]
                                    ELSE << >>]
                 ELSE d,
         mem |-> historyBlocks(bs, ms, e.called, 1, enable),
         result |-> << Line(cBlocks, "sh", Hole,
                            IF enable THEN "history enabled" ELSE "history disabled") >>]

\* addAddress(address, offset): the offset of the address after it
addAddress(off, offset) == (off + offset) % addrTotal

\* readAddress(address): busMemory.readData(address.off), with the debugger's
\* own read callback when the block is trapped
readAddress(d, bs, ms, pc, off) ==
    LET r == readData(bs, ms, off)
        c == IF r.log = << >> THEN [dbg |-> d, stop |-> NoStop]
             ELSE checkBusRead(d, pc, r.log[1].addr, r.log[1].value)
    IN  [value |-> r.value, dbg |-> c.dbg, stop |-> c.stop]

\* unassemble(address, opcodes): the line printed; one opcode is shifted out
\* and the address advances by one
unassemble(off, opcodes) == [addr |-> off, opcode |-> opcodes[1]]

\* the slots from i on, in the order the cursor of dumpHistory passes them
Cursor(buffer, i) == [k \in 1 .. Len(buffer) |-> (i + k - 1) % Len(buffer)]

\* the loop of dumpHistory, one call per slot in use, the cleared slots before
\* it passed over: i the cursor, off the offset of `address` (Undefined until
\* it is created), opcodes the bytes read and not yet printed; with no slot in
\* use the loop never ends
RECURSIVE dumpHistoryLoop(_, _, _, _, _, _, _, _, _, _)
dumpHistoryLoop(d, bs, ms, pc, i, off, opcodes, length, result, stopped) ==
    IF ~(i >= 0 /\ i < Len(d.historyBuffer) /\ length > 0)
    THEN [dbg |-> d, result |-> result, stopped |-> stopped, returns |-> TRUE]
    ELSE IF \A k \in 1 .. Len(d.historyBuffer) : d.historyBuffer[k] = Undefined
    THEN [dbg |-> d, result |-> result, stopped |-> stopped, returns |-> FALSE]
    ELSE
      LET order == Cursor(d.historyBuffer, i)
          first == CHOOSE k \in 1 .. Len(order) :
                      /\ d.historyBuffer[order[k] + 1] /= Undefined
                      /\ \A j \in 1 .. (k - 1) : d.historyBuffer[order[j] + 1] = Undefined
          addr == d.historyBuffer[order[first] + 1]
          iNext == IF order[first] + 1 = Len(d.historyBuffer) THEN 0 ELSE order[first] + 1
          off1 == IF off = Undefined THEN addr ELSE off
          fPrint == addr /= off1 \/ Len(opcodes) = d.maxOpLength
          line == unassemble(addAddress(off1, -Len(opcodes)), opcodes)
          r == readAddress(d, bs, ms, pc, addr)
      IN  dumpHistoryLoop(r.dbg, bs, ms, pc, iNext, addr,
                          Append(IF fPrint THEN Tail(opcodes) ELSE opcodes, r.value),
                          IF fPrint THEN length - 1 ELSE length,
                          IF fPrint THEN Append(result, line) ELSE result,
                          stopped \/ r.stop.stop)

\* dumpHistory(index, length)
dumpHistory(d, bs, ms, pc, index, length) ==
    LET rewind == IF index < 0 THEN length ELSE index
        i == d.historyNext - rewind
    IN  dumpHistoryLoop(d, bs, ms, pc,
                        IF i < 0 THEN i + Len(d.historyBuffer) ELSE i,
                        Undefined, << >>, length, << >>, FALSE)

\* the records the history holds
Records(d) == {k \in 1 .. Len(d.historyBuffer) : d.historyBuffer[k] /= Undefined}

\* sh on, sh off
EnableHistory ==
    \E enable \in BOOLEAN :
        \E r \in {enableHistory(dbg, blocks, mem, enable)} :
            /\ enable => TotalTraps <= addrTotal
            /\ dbg' = r.dbg
            /\ mem' = r.mem
            /\ dbgOp' = Cmd("sh", 0, enable, r.result, NoStop)
            /\ executed' = << >>
            /\ UNCHANGED << blocks, busOp, busRet, trapLog, fRunning, regPC, issued >>

\* t: the CPU executes one instruction, of one byte, fetched at regPC, and goes
\* on to any address
Step ==
    \E pcNext \in Addrs :
        \E r \in {readAddress(dbg, blocks, mem, regPC, regPC)} :
            /\ Cardinality(Records(dbg)) < MaxSteps
            /\ dbg' = r.dbg
            /\ regPC' = pcNext
            /\ dbgOp' = Cmd("t", regPC, FALSE, << >>, r.stop)
            /\ executed' = IF Len(dbg.historyBuffer) /= 0 THEN Append(executed, regPC)
                           ELSE executed
            /\ UNCHANGED << busVars, fRunning, issued >>

\* dh, dh n
DumpHistory ==
    \E index \in -1 .. MaxSteps :
        \E r \in {dumpHistory(dbg, blocks, mem, regPC, index, DefaultLength)} :
            /\ Cardinality(Records(dbg)) <= MaxSteps
            /\ r.returns
            /\ dbg' = r.dbg
            /\ dbgOp' = Cmd("dh", index, FALSE,
                            IF r.result = << >> THEN << Line(-1, "", Hole, "no history") >>
                            ELSE r.result, NoStop)
            /\ UNCHANGED << busVars, fRunning, regPC, issued, executed >>

\* the most records followed since history was enabled: the ring goes round
MaxRecords == HistoryLimit + 1

\* one read of the CPU, running or stepped: the opcode fetch at regPC, after
\* which regPC is the next address, or a data read elsewhere
ReadCycle ==
    \E addr \in CpuAddrs :
        \E r \in {readData(blocks, mem, addr)} :
            \E c \in {IF r.log = << >> THEN [dbg |-> dbg, stop |-> NoStop]
                       ELSE checkBusRead(dbg, regPC, r.log[1].addr, r.log[1].value)} :
                /\ Len(executed) < MaxRecords
                /\ dbg' = c.dbg
                /\ regPC' = IF addr = regPC THEN addAddress(regPC, 1) ELSE regPC
                /\ fRunning' = IF c.stop.stop THEN timeStop(fRunning).running ELSE fRunning
                /\ dbgOp' = Cmd("read", addr, regPC = addr, r.log, c.stop)
                /\ executed' = IF c.dbg /= dbg THEN Append(executed, addr) ELSE executed
                /\ UNCHANGED << busVars, issued >>

\* dumpHistory up to its loop: the cursor i, the lines still to print, and
\* `address` and opcodes not yet created
dumpHistoryStart(d, index, length) ==
    LET rewind == IF index < 0 THEN length ELSE index
        i == d.historyNext - rewind
    IN  [index |-> index,
         i |-> IF i < 0 THEN i + Len(d.historyBuffer) ELSE i,
         length |-> length, off |-> Undefined, opcodes |-> << >>]

\* the condition of the while loop of dumpHistory
dumpHistoryMore(d, st) == st.i >= 0 /\ st.i < Len(d.historyBuffer) /\ st.length > 0

\* one pass of the body of the while loop of dumpHistory
dumpHistoryPass(d, bs, ms, pc, st, result) ==
    LET addr == d.historyBuffer[st.i + 1]
        iNext == IF st.i + 1 = Len(d.historyBuffer) THEN 0 ELSE st.i + 1
        off1 == IF st.off = Undefined THEN addr ELSE st.off
        fPrint == addr /= off1 \/ Len(st.opcodes) = d.maxOpLength
        r == readAddress(d, bs, ms, pc, addr)
    IN  IF addr = Undefined
        THEN [dbg |-> d, st |-> [st EXCEPT !.i = iNext], result |-> result]
        ELSE [dbg |-> r.dbg,
              st |-> [st EXCEPT !.i = iNext,
                                !.length = IF fPrint THEN @ - 1 ELSE @,
                                !.off = addr,
                                !.opcodes = Append(IF fPrint THEN Tail(@) ELSE @, r.value)],
              result |-> IF fPrint
                         THEN Append(result,
                                     unassemble(addAddress(off1, -Len(st.opcodes)), st.opcodes))
                         ELSE result]

\* dh, dh n: dumpHistory is entered
StartDump ==
    \E index \in {-1, 1} :
        /\ dbgOp.op /= "dh"
        /\ dbgOp' = Cmd("dh", dumpHistoryStart(dbg, index, DefaultLength), FALSE, << >>, NoStop)
        /\ UNCHANGED << busVars, dbg, fRunning, regPC, issued, executed >>

\* the loop of dumpHistory goes round once
DumpPass ==
    /\ dbgOp.op = "dh"
    /\ dumpHistoryMore(dbg, dbgOp.arg)
    /\ \E r \in {dumpHistoryPass(dbg, blocks, mem, regPC, dbgOp.arg, dbgOp.result)} :
           /\ dbg' = r.dbg
           /\ dbgOp' = Cmd("dh", r.st, FALSE, r.result, NoStop)
    /\ UNCHANGED << busVars, fRunning, regPC, issued, executed >>

\* the loop of dumpHistory is left and the result returned
DumpReturn ==
    /\ dbgOp.op = "dh"
    /\ ~dumpHistoryMore(dbg, dbgOp.arg)
    /\ dbgOp' = Cmd("dhReturn", dbgOp.arg.index, FALSE,
                    IF dbgOp.result = << >> THEN << Line(-1, "", Hole, "no history") >>
                    ELSE dbgOp.result, NoStop)
    /\ UNCHANGED << busVars, dbg, fRunning, regPC, issued, executed >>

(***************************************************************************)
(* The debugger's expression evaluator, for an expression that is one      *)
(* number: the text of a number is the sequence of its characters.         *)
(***************************************************************************)
\* the widest default width explored
MaxBits == 8

Digits == << "0", "1", "2", "3", "4", "5", "6", "7",
             "8", "9", "a", "b", "c", "d", "e", "f" >>
DigitValue(ch) == CHOOSE n \in 0 .. 15 : Digits[n + 1] = ch

RECURSIVE toDigits(_, _)
toDigits(n, base) ==
    IF n < base THEN << Digits[n + 1] >>
    ELSE Append(toDigits(n \div base, base), Digits[(n % base) + 1])

\* toBase(n, base) for base 16 and n >= 0: the digits after "0x"
toBase(n, base) == << "0", "x" >> \o toDigits(n, base)

RECURSIVE fromDigits(_, _, _)
fromDigits(s, base, acc) ==
    IF s = << >> THEN acc
    ELSE fromDigits(Tail(s), base, acc * base + DigitValue(Head(s)))

\* parseInt(s, base): a "0x" prefix makes the rest hexadecimal
parseInt(s, base) ==
    IF Len(s) > 2 /\ s[1] = "0" /\ s[2] = "x"
    THEN fromDigits(SubSeq(s, 3, Len(s)), 16, 0)
    ELSE fromDigits(s, base, 0)

\* truncate(v, nBits, fUnsigned) for widths of 32 bits and less: nBits 0 stands
\* for a width left out, which is nDefaultBits
truncate(d, v, nBits, fUnsigned) ==
    LET n == IF nBits = 0 THEN d.nDefaultBits ELSE nBits
        low == v % (2 ^ n)
    IN  IF fUnsigned THEN low
        ELSE IF low >= 2 ^ (n - 1) THEN low - 2 ^ n ELSE low

\* parseUnary(value, nUnary) with no unary operator
parseUnary(d, value, nUnary) == value

\* parseValue(sValue, sName, aUndefined, nUnary) of a number: neither a
\* register nor a variable
parseValue(d, sValue, nUnary) ==
    LET base == IF Len(sValue) > 1 \/ d.nDefaultBase > 10 THEN d.nDefaultBase ELSE 10
    IN  truncate(d, parseUnary(d, parseInt(sValue, base), nUnary), 0, FALSE)

\* the binary operators explored, of three precedences
BinOps == {"<", "-", "+", "*"}

\* DbgIO.BINOP_PRECEDENCE, which achGroup selects
BINOP_PRECEDENCE ==
    [sOp \in BinOps |->
        CASE sOp = "<" -> 11
          [] sOp \in {"-", "+"} -> 13
          [] OTHER -> 14]

\* the value of the switch of evalOps for one operator
evalOp(chOp, val1, val2) ==
    CASE chOp = "*" -> val1 * val2
      [] chOp = "+" -> val1 + val2
      [] chOp = "-" -> val1 - val2
      [] OTHER -> IF val1 < val2 THEN 1 ELSE 0

\* evalOps(aVals, aOps, cOps): cOps of -1 for all
RECURSIVE evalOps(_, _, _, _)
evalOps(d, aVals, aOps, cOps) ==
    IF cOps = 0 \/ aOps = << >>
    THEN [ok |-> TRUE, aVals |-> aVals, aOps |-> aOps]
    ELSE IF Len(aVals) < 2
    THEN [ok |-> FALSE, aVals |-> aVals, aOps |-> SubSeq(aOps, 1, Len(aOps) - 1)]
    ELSE LET valNew == evalOp(aOps[Len(aOps)], aVals[Len(aVals) - 1], aVals[Len(aVals)])
         IN  evalOps(d,
                     Append(SubSeq(aVals, 1, Len(aVals) - 2), truncate(d, valNew, 0, FALSE)),
                     SubSeq(aOps, 1, Len(aOps) - 1),
                     cOps - 1)

\* the while loop of parseArray from asValues[iValue]; the stacks and whether
\* an error was met
RECURSIVE parseArrayLoop(_, _, _, _, _, _)
parseArrayLoop(d, asValues, iValue, aVals, aOps, nBase) ==
    IF iValue > Len(asValues)
    THEN [fError |-> FALSE, aVals |-> aVals, aOps |-> aOps]
    ELSE LET sValue == asValues[iValue]
             sOp == IF iValue < Len(asValues) THEN asValues[iValue + 1] ELSE ""
             v == parseValue([d EXCEPT !.nDefaultBase = nBase], sValue, 0)
             pushed == Append(aVals, truncate(d, v, 0, FALSE))
         IN  IF sOp = ""
             THEN [fError |-> FALSE, aVals |-> pushed, aOps |-> aOps]
             ELSE IF sOp \notin DOMAIN BINOP_PRECEDENCE
             THEN [fError |-> TRUE, aVals |-> pushed, aOps |-> aOps]
             ELSE LET r == IF aOps /= << >>
                              /\ BINOP_PRECEDENCE[sOp] <= BINOP_PRECEDENCE[aOps[Len(aOps)]]
                           THEN evalOps(d, pushed, aOps, 1)
                           ELSE [ok |-> TRUE, aVals |-> pushed, aOps |-> aOps]
                  IN  parseArrayLoop(d, asValues, iValue + 2, r.aVals,
                                     Append(r.aOps, sOp), nBase)

\* parseArray(asValues, 0, asValues.length, nBase): << value >>, or << >> for
\* undefined
parseArray(d, asValues, nBase) ==
    LET l == parseArrayLoop(d, asValues, 1, << >>, << >>, nBase)
        r == evalOps(d, l.aVals, l.aOps, -1)
    IN  IF l.fError \/ ~r.ok \/ Len(r.aVals) /= 1 THEN << >>
        ELSE << r.aVals[Len(r.aVals)] >>

\* sExpr.split(regExp): the values at the odd places and the operators between
RECURSIVE split(_, _, _)
split(sExpr, sValue, asValues) ==
    IF sExpr = << >> THEN Append(asValues, sValue)
    ELSE IF Head(sExpr) \in BinOps
    THEN split(Tail(sExpr), << >>, asValues \o << sValue, Head(sExpr) >>)
    ELSE split(Tail(sExpr), Append(sValue, Head(sExpr)), asValues)

\* parseExpression(sExpr): << value >>, or << >> for undefined
parseExpression(d, sExpr) ==
    IF sExpr = << >> THEN << >>
    ELSE parseArray(d, split(sExpr, << >>, << >>), d.nDefaultBase)

\* the debugger attached to a bus of any address width from 1 to MaxBits:
\* nDefaultBits is the bus's addrWidth, and the evaluator reads nothing else
\* of the bus
ParseInit ==
    /\ BusInit
    /\ \E w \in 1 .. MaxBits :
           dbg = [constructorDbg EXCEPT !.nDefaultBits = w]
    /\ fRunning = FALSE
    /\ regPC = 0
    /\ dbgOp = Cmd("constructor", 0, FALSE, << >>, NoStop)
    /\ issued = {}
    /\ executed = << >>

\* a number is printed: toBase(v)
ToBase ==
    \E v \in 0 .. (2 ^ dbg.nDefaultBits - 1) :
        /\ dbgOp' = Cmd("toBase", v, FALSE, toBase(v, dbg.nDefaultBase), NoStop)
        /\ UNCHANGED << busVars, dbg, fRunning, regPC, issued, executed >>

\* the text printed is typed back: parseExpression(sExpr)
ParseExpression ==
    /\ dbgOp.op = "toBase"
    /\ dbgOp' = Cmd("parseExpression", dbgOp.arg, FALSE,
                    parseExpression(dbg, dbgOp.result), NoStop)
    /\ UNCHANGED << busVars, dbg, fRunning, regPC, issued, executed >>


\* the most operators in an expression explored
MaxOperators == 3

\* the numbers written in the expressions
ExprValues == {2, 3, 16}

\* expressions of values and binary operators without grouping: the values
\* and the operators between them
RECURSIVE Exprs(_)
Exprs(n) ==
    IF n = 0 THEN { [vals |-> << v >>, ops |-> << >>] : v \in ExprValues }
    ELSE Exprs(n - 1) \cup
         { [vals |-> Append(e.vals, v), ops |-> Append(e.ops, sOp)] :
               e \in { x \in Exprs(n - 1) : Len(x.ops) = n - 1 },
               v \in ExprValues, sOp \in BinOps }

\* the text of an expression, its numbers in the default base
RECURSIVE exprText(_, _)
exprText(e, base) ==
    IF e.ops = << >> THEN toDigits(e.vals[1], base)
    ELSE toDigits(e.vals[1], base) \o << e.ops[1] >> \o
         exprText([vals |-> Tail(e.vals), ops |-> Tail(e.ops)], base)

\* the debugger with an expression typed after the p command
ExprInit ==
    /\ BusInit
    /\ dbg = [constructorDbg EXCEPT !.nDefaultBits = MaxBits]
    /\ fRunning = FALSE
    /\ regPC = 0
    /\ \E e \in Exprs(MaxOperators) :
           dbgOp = Cmd("input", e, FALSE, exprText(e, dbg.nDefaultBase), NoStop)
    /\ issued = {}
    /\ executed = << >>

\* p sExpr: the expression is evaluated
PrintExpression ==
    /\ dbgOp.op = "input"
    /\ dbgOp' = Cmd("p", dbgOp.arg, FALSE, parseExpression(dbg, dbgOp.result), NoStop)
    /\ UNCHANGED << busVars, dbg, fRunning, regPC, issued, executed >>

(***************************************************************************)
(* truncate on the numbers of the evaluator.  A JS number that holds an    *)
(* integer is a sign and a magnitude, the magnitude written as its binary  *)
(* digits, lowest first, without leading zeros: the arithmetic below is    *)
(* exact where JS is exact and rounds where JS rounds.                     *)
(***************************************************************************)
\* the widest truncation explored
MaxWidth == 64

\* binary digits a JS number holds exactly
Significand == 53

RECURSIVE Trim(_)
Trim(b) ==
    IF b = << >> THEN b
    ELSE IF b[Len(b)] = 1 THEN b
    ELSE Trim(SubSeq(b, 1, Len(b) - 1))

\* b mod 2^n and b div 2^n
Low(b, n) == Trim(SubSeq(b, 1, IF n < Len(b) THEN n ELSE Len(b)))
High(b, n) == SubSeq(b, n + 1, Len(b))

Pow2(n) == Append(Zeros(n), 1)
Ones(n) == [i \in 1 .. n |-> 1]

RECURSIVE Inc(_)
Inc(b) ==
    IF b = << >> THEN << 1 >>
    ELSE IF b[1] = 0 THEN << 1 >> \o Tail(b)
    ELSE << 0 >> \o Inc(Tail(b))

\* 2^n - b for b <= 2^n
Compl(b, n) ==
    IF Len(b) > n THEN << >>
    ELSE Trim(Inc([i \in 1 .. n |-> IF i <= Len(b) THEN 1 - b[i] ELSE 1]))

\* the JS number nearest to b, ties to the even one
Round(b) ==
    IF Len(b) <= Significand THEN b
    ELSE LET k == Len(b) - Significand
             q == High(b, k)
             up == b[k] = 1 /\ (Low(b, k - 1) /= << >> \/ q[1] = 1)
         IN  Zeros(k) \o (IF up THEN Inc(q) ELSE q)

JSInt(neg, mag) == [neg |-> neg /\ mag /= << >>, mag |-> mag]

\* ToUint32(v), which the operators & and >>> apply to their operand
ToUint32Bits(v) ==
    IF v.neg THEN Compl(Low(v.mag, 32), 32) ELSE Low(v.mag, 32)

\* truncate(v, nBits, true): the branch of fUnsigned
truncateUnsigned(v, nBits) ==
    IF nBits = 32 THEN JSInt(FALSE, Low(ToUint32Bits(v), 32))
    ELSE IF nBits < 32 THEN JSInt(FALSE, Low(ToUint32Bits(v), nBits))
    ELSE IF v.neg \/ Len(v.mag) > nBits
         THEN LET vNew == JSInt(v.neg, Low(v.mag, nBits))
              IN  IF vNew.neg
                  THEN JSInt(FALSE, Round(Compl(vNew.mag, nBits)))
                  ELSE vNew
         ELSE v

\* ((x mod 2^n) + 2^n) mod 2^n
ModPow2(x, n) ==
    IF x.neg THEN JSInt(FALSE, Low(Compl(Low(x.mag, n), n), n))
    ELSE JSInt(FALSE, Low(x.mag, n))

\* the widths on either side of the three paths, and the magnitudes about
\* each power of two that a JS number holds
Widths == {1, 2, 8, 16, 31, 32, 33, 36, 52, 53, 54, MaxWidth}
Magnitudes ==
    { << >> } \cup
    UNION { { Pow2(n) } \cup
            (IF n <= Significand THEN { Ones(n) } ELSE {}) \cup
            (IF n < Significand THEN { Inc(Pow2(n)) } ELSE {}) : n \in Widths }
Integers53 == { JSInt(neg, mag) : neg \in BOOLEAN, mag \in Magnitudes }

\* the debugger with a number and a width to truncate it to
TruncInit ==
    /\ BusInit
    /\ dbg = constructorDbg
    /\ fRunning = FALSE
    /\ regPC = 0
    /\ \E v \in Integers53, nBits \in Widths :
           dbgOp = Cmd("input", [v |-> v, nBits |-> nBits], TRUE, << >>, NoStop)
    /\ issued = {}
    /\ executed = << >>

\* truncate(v, nBits, true)
Truncate ==
    /\ dbgOp.op = "input"
    /\ dbgOp' = Cmd("truncate", dbgOp.arg, TRUE,
                    truncateUnsigned(dbgOp.arg.v, dbgOp.arg.nBits), NoStop)
    /\ UNCHANGED << busVars, dbg, fRunning, regPC, issued, executed >>

vars == << busVars, segVars, dbgVars >>

Init == BusInit /\ SegIdle /\ DbgIdle

\* machine configuration: the block table as addBlocks builds it
NextBus ==
    \/ AddBlocks /\ UNCHANGED << segVars, dbgVars >>
    \/ EnumBlocks /\ UNCHANGED << segVars, dbgVars >>
SpecBus == Init /\ [][NextBus]_vars

\* instrumentation: traps and accesses on configured machines
NextTrap ==
    \/ AddRegion /\ UNCHANGED << segVars, dbgVars >>
    \/ ReadData /\ UNCHANGED << segVars, dbgVars >>
    \/ WriteData /\ UNCHANGED << segVars, dbgVars >>
    \/ TrapRead /\ UNCHANGED << segVars, dbgVars >>
    \/ TrapWrite /\ UNCHANGED << segVars, dbgVars >>
    \/ UntrapRead /\ UNCHANGED << segVars, dbgVars >>
    \/ UntrapWrite /\ UNCHANGED << segVars, dbgVars >>
SpecTrap == Init /\ [][NextTrap]_vars

\* segmentation: a data or stack segment register through loads, checks and
\* mode changes
InitSeg == BusInit /\ SegInit /\ DbgIdle
NextSeg ==
    \/ Load /\ UNCHANGED << busVars, dbgVars >>
    \/ CheckRead /\ UNCHANGED << busVars, dbgVars >>
    \/ CheckWrite /\ UNCHANGED << busVars, dbgVars >>
    \/ UpdateMode /\ UNCHANGED << busVars, dbgVars >>
SpecSeg == InitSeg /\ [][NextSeg]_vars

\* suspend and resume: the segment register of SpecSeg, saved at any moment and
\* restored in the register of a second machine
NextSave ==
    \/ Load /\ UNCHANGED << busVars, dbgVars >>
    \/ CheckRead /\ UNCHANGED << busVars, dbgVars >>
    \/ CheckWrite /\ UNCHANGED << busVars, dbgVars >>
    \/ UpdateMode /\ UNCHANGED << busVars, dbgVars >>
    \/ Restore /\ UNCHANGED << busVars, dbgVars >>
SpecSave == InitSeg /\ [][NextSave]_vars

\* control transfer: the code segment register of a protected-mode CPU through
\* far jumps, calls and returns, gates and task switches
InitCS == BusInit /\ CpuInit /\ DbgIdle
NextCS ==
    \/ LoadCS /\ UNCHANGED << busVars, dbgVars >>
    \/ SwitchTSS /\ UNCHANGED << busVars, dbgVars >>
    \/ LoadIDT /\ UNCHANGED << busVars, dbgVars >>
SpecCS == InitCS /\ [][NextCS]_vars

\* debugging: break addresses set, cleared, disabled and enabled on a machine
\* whose CPU runs until a break address stops the clock
InitDbg == DbgInit /\ SegIdle
NextDbg ==
    \/ SetBreak /\ UNCHANGED segVars
    \/ ClearBreak /\ UNCHANGED segVars
    \/ EnableBreak /\ UNCHANGED segVars
    \/ ListBreak /\ UNCHANGED segVars
    \/ Go /\ UNCHANGED segVars
    \/ Halt /\ UNCHANGED segVars
    \/ CpuRead /\ UNCHANGED segVars
    \/ CpuWrite /\ UNCHANGED segVars
SpecDbg == InitDbg /\ [][NextDbg]_vars

\* instruction history: set, filled by the CPU's fetches and dumped
NextHist ==
    \/ EnableHistory /\ UNCHANGED segVars
    \/ Step /\ UNCHANGED segVars
    \/ DumpHistory /\ UNCHANGED segVars
SpecHist == InitDbg /\ [][NextHist]_vars

\* expressions: numbers printed and typed back
InitParse == ParseInit /\ SegIdle
NextParse ==
    \/ ToBase /\ UNCHANGED segVars
    \/ ParseExpression /\ UNCHANGED segVars
SpecParse == InitParse /\ [][NextParse]_vars

\* truncation: a number and a width, truncated
InitTrunc == TruncInit /\ SegIdle
NextTrunc == Truncate /\ UNCHANGED segVars
SpecTrunc == InitTrunc /\ [][NextTrunc]_vars

\* expressions of several operators, evaluated
InitExpr == ExprInit /\ SegIdle
NextExpr == PrintExpression /\ UNCHANGED segVars
SpecExpr == InitExpr /\ [][NextExpr]_vars

\* the history ring: history switched on and off, and the CPU reading
NextRing ==
    \/ EnableHistory /\ UNCHANGED segVars
    \/ ReadCycle /\ UNCHANGED segVars
SpecRing == InitDbg /\ [][NextRing]_vars

\* break addresses and history together: b*, sh on and sh off in any order
NextBreakHist ==
    \/ SetBreak /\ UNCHANGED segVars
    \/ ClearBreak /\ UNCHANGED segVars
    \/ EnableBreak /\ UNCHANGED segVars
    \/ EnableHistory /\ UNCHANGED segVars
SpecBreakHist == InitDbg /\ [][NextBreakHist]_vars

\* break addresses set and cleared, and bd and be on the slots left cleared
NextCleared ==
    \/ SetBreak /\ UNCHANGED segVars
    \/ ClearBreak /\ UNCHANGED segVars
    \/ EnableCleared /\ UNCHANGED segVars
SpecCleared == InitDbg /\ [][NextCleared]_vars

\* a dump has been asked for: each behaviour followed holds one dump, which
\* nothing interrupts, the debugger running one command at a time
Dumped == dbgOp.op \in {"dh", "dhReturn"}

\* dumpHistory pass by pass, after history was switched on and off and the
\* CPU read
NextDump ==
    \/ ~Dumped /\ EnableHistory /\ UNCHANGED segVars
    \/ ~Dumped /\ ReadCycle /\ UNCHANGED segVars
    \/ ~Dumped /\ StartDump /\ UNCHANGED segVars
    \/ DumpPass /\ UNCHANGED segVars
    \/ DumpReturn /\ UNCHANGED segVars
SpecDump == InitDbg /\ [][NextDump]_vars
\* a dump under way goes on: the debugger does nothing else until it returns
SpecDumpLive ==
    /\ SpecDump
    /\ WF_vars(DumpPass /\ UNCHANGED segVars)
    /\ WF_vars(DumpReturn /\ UNCHANGED segVars)

(***************************************************************************)
(* Properties of the bus.                                                  *)
(***************************************************************************)
\* the object the trap functions reach for an address
TrapBlock(addr) == blocks[trapIndex(addr)]
\* the object an access is routed to
AccessBlock(addr) == blocks[blockIndex(addr)]

\* C1: trap transparency.  From every reachable state and for every address a
\* and callback f, a successful trapRead(a, f) followed by untrapRead(a, f)
\* gives back the objects exactly as they were: the readData slot holds the
\* function it held before, the count is what it was, and when no trap was
\* installed before, readPrev and readTrap are unset again; every read of the
\* bus then returns the same value and invokes the same callbacks as before.
\* The same for trapWrite/untrapWrite and writes.
C1_TrapTransparency ==
    \A a \in TrapAddrs, f \in Funcs :
        LET id == TrapBlock(a)
            tr == trapRead(blocks, mem, a, f)
            ur == untrapRead(blocks, tr.mem, a, f)
            tw == trapWrite(blocks, mem, a, f)
            uw == untrapWrite(blocks, tw.mem, a, f)
        IN  /\ tr.ret =>
                /\ ur.ret
                /\ ur.mem[id].readData = mem[id].readData
                /\ ur.mem = mem
                /\ \A x \in AccessAddrs :
                      readData(blocks, ur.mem, x) = readData(blocks, mem, x)
            /\ mem[id].nReadTraps = 0 =>
                /\ tr.ret
                /\ tr.mem[id].readData = "readTrap"
                /\ ur.mem[id].readPrev = Unset
                /\ ur.mem[id].readTrap = Unset
            /\ tw.ret =>
                /\ uw.ret
                /\ uw.mem[id].writeData = mem[id].writeData
                /\ uw.mem = mem
                /\ \A x \in AccessAddrs, v \in Vals :
                      writeData(blocks, uw.mem, x, v) = writeData(blocks, mem, x, v)
            /\ mem[id].nWriteTraps = 0 =>
                /\ tw.ret
                /\ tw.mem[id].writeData = "writeTrap"
                /\ uw.mem[id].writePrev = Unset
                /\ uw.mem[id].writeTrap = Unset

\* an untrapRead has just removed the last reference of a trap
C1_Witness ==
    /\ busOp.op = "untrapRead"
    /\ busRet.ok
    /\ mem[TrapBlock(busOp.addr)].nReadTraps = 0
    /\ mem[TrapBlock(busOp.addr)].readData = "readValue"

\* the trap of a block is installed exactly while its count is positive
C2_Installed ==
    \A id \in Ids :
        LET m == mem[id]
        IN  /\ m.nReadTraps >= 0
            /\ m.nReadTraps > 0 <=> m.readData = "readTrap"
            /\ \A o \in Offsets :
                  IF m.nReadTraps > 0
                  THEN /\ Len(blockRead(m, o).log) = 1
                       /\ blockRead(m, o).log[1].fn = m.readTrap
                  ELSE blockRead(m, o).log = << >>

\* every trapRead that succeeds adds one reference, every matching untrapRead
\* takes one away, and an untrapRead without a matching trap returns false
C2_Step ==
    LET id == TrapBlock(busOp'.addr)
        n == mem[id].nReadTraps
    IN  /\ (busOp'.op = "trapRead" /\ busRet'.ok) =>
                mem'[id].nReadTraps = n + 1
        /\ busOp'.op = "untrapRead" =>
                IF n >= 1 /\ mem[id].readTrap = busOp'.func
                THEN busRet'.ok /\ mem'[id].nReadTraps = n - 1
                ELSE ~busRet'.ok /\ mem' = mem

\* C2: trap reference counting.  The count of a block is the number of
\* successful trapRead calls less the number of matching untrapRead calls:
\* each call moves it by one, it is never negative, the callback fires on a
\* read exactly while it is positive, and an untrapRead on a block whose
\* count is zero returns false and changes nothing.
C2_RefCount == [](C2_Installed) /\ [][C2_Step]_vars

\* two traps, one untrap: the count is back at one and the trap installed
C2_Witness ==
    /\ busOp.op = "untrapRead"
    /\ busRet.ok
    /\ mem[TrapBlock(busOp.addr)].nReadTraps = 1
    /\ mem[TrapBlock(busOp.addr)].readData = "readTrap"

\* C3: trap callback ordering.  A read of a trapped block calls the callback
\* with the value the underlying read produced, which is the value the read
\* returns; a write of a trapped block calls the callback while the block
\* still holds the old value at the address, and the store follows.
C3_CallbackOrdering ==
    [][ LET id == AccessBlock(busOp'.addr)
            o == blockOffset(busOp'.addr)
        IN  /\ (busOp'.op = "readData" /\ mem[id].nReadTraps > 0) =>
                /\ Len(trapLog') = 1
                /\ trapLog'[1].value = Peek(mem[id], o)
                /\ trapLog'[1].value = busRet'.value
            /\ (busOp'.op = "writeData" /\ mem[id].nWriteTraps > 0) =>
                /\ Len(trapLog') = 1
                /\ trapLog'[1].seen = Peek(mem[id], o)
                /\ trapLog'[1].value = busOp'.value
                /\ mem[id].writePrev = "writeValue" => Peek(mem'[id], o) = busOp'.value
      ]_vars

\* a write of a trapped RAM block changed the byte its callback still saw old
C3_Witness ==
    /\ busOp.op = "writeData"
    /\ Len(trapLog) = 1
    /\ trapLog[1].seen /= busOp.value
    /\ Peek(mem[AccessBlock(busOp.addr)], blockOffset(busOp.addr)) = busOp.value

\* the block indexes an addBlocks(addr, size, ...) request covers
Covered(addr, size) ==
    {i \in Indexes : i >= addr \div blockSize /\ i * blockSize < addr + size}

\* C4: block conflict.  An addBlocks call whose covered range includes an
\* index holding a non-NONE block returns false and leaves the block table
\* exactly as it was, the indexes before the conflicting one included.
C4_BlockConflict ==
    [][ ( /\ busOp'.op = "addBlocks"
          /\ \E i \in Covered(busOp'.addr, busOp'.size) :
                mem[blocks[i]].type /= TYPE.NONE )
        => (~busRet'.ok /\ blocks' = blocks)
      ]_vars

\* C5: an access of an added block with a trap installed invokes the callback once,
\* with the accessed bus address and the value written (or read), whatever
\* the reference count and however the block was added.
C5_CallbackAddress ==
    LET m == mem[AccessBlock(busOp.addr)]
    IN  /\ (busOp.op = "writeData" /\ m.type /= TYPE.NONE /\ m.nWriteTraps > 0) =>
            /\ Len(trapLog) = 1
            /\ trapLog[1].addr = busOp.addr
            /\ trapLog[1].value = busOp.value
        /\ (busOp.op = "readData" /\ m.type /= TYPE.NONE /\ m.nReadTraps > 0) =>
            /\ Len(trapLog) = 1
            /\ trapLog[1].addr = busOp.addr
            /\ trapLog[1].value = busRet.value

\* C6: trap conflict.  On a block that has a read (write) trap with one
\* callback, trapRead (trapWrite) with another callback returns false and
\* leaves every object, and so the block's callback, count, readPrev/writePrev
\* and readData/writeData slots, as it was.
C6_TrapConflict ==
    \A a \in TrapAddrs, g \in Funcs :
        \E m \in {mem[TrapBlock(a)]},
           tr \in {trapRead(blocks, mem, a, g)},
           tw \in {trapWrite(blocks, mem, a, g)} :
            /\ (m.nReadTraps > 0 /\ m.readTrap /= g) =>
                    (~tr.ret /\ tr.mem = mem)
            /\ (m.nWriteTraps > 0 /\ m.writeTrap /= g) =>
                    (~tw.ret /\ tw.mem = mem)

\* a trapRead with a second callback has just been refused
C6_Witness ==
    /\ busOp.op = "trapRead"
    /\ ~busRet.ok
    /\ mem[TrapBlock(busOp.addr)].nReadTraps > 0
    /\ mem[TrapBlock(busOp.addr)].readTrap /= busOp.func

\* C7: every block of the table has a size that blockSize divides, and a
\* block the bus allocated itself has exactly blockSize bytes.
C7_BlockSizes ==
    \A i \in Indexes :
        /\ mem[blocks[i]].size % blockSize = 0
        /\ blocks[i] = NewId(i) => mem[blocks[i]].size = blockSize

\* C8: enumBlocks calls the callback exactly once for each distinct block
\* whose type intersects the mask, never for a NONE block, and returns the
\* number of calls.
C8_EnumOnce ==
    busOp.op = "enumBlocks" =>
        LET called == busRet.called
            want == {id \in {blocks[i] : i \in Indexes} :
                        BitAnd2(mem[id].type, busOp.type) /= 0}
        IN  /\ busRet.value = Len(called)
            /\ {called[k] : k \in 1 .. Len(called)} = want
            /\ Len(called) = Cardinality(want)
            /\ \A k \in 1 .. Len(called) : mem[called[k]].type /= TYPE.NONE


(***************************************************************************)
(* Segment registers.                                                      *)
(***************************************************************************)
\* 16-bit selector values, the reset segment 0xF000 among them
Selectors16 == {0, 8, 4660, 61440, 65535}

\* the offsets the checks are asked about, around the limit and far from it
Offsets32 == {0, SegLimit - 3, SegLimit - 1, SegLimit, SegLimit + 1, 65535, -1}
Sizes == {1, 2, 4}

\* C9: in real mode load(s), for every 16-bit selector s, returns s << 4 and
\* changes the segment register in sel (to s) and base (to s << 4) only:
\* limit, offMax, acc, type, ext, cpl, dpl, addrDesc, the sizes, the masks and
\* the function slots stay as they were, in whatever state earlier loads and
\* mode changes left them; no descriptor is written and no fault is reported.
C9_RealModeLoad ==
    ~fProtMode =>
        \A s \in Selectors16, fSuppress \in BOOLEAN :
            \E r \in {load(seg, descMem, fProtMode, s, fSuppress)} :
                /\ r.ret = s * 16
                /\ r.seg = [seg EXCEPT !.sel = s, !.base = s * 16]
                /\ r.descMem = descMem
                /\ r.faults = << >>

\* a real-mode load of 0xF000 into a register that a protected-mode load had
\* given another limit: base and result 0xF0000, the limit still that one
C9_Witness ==
    /\ ~fProtMode
    /\ segOp.op = "load"
    /\ segOp.sel = 61440
    /\ seg.sel = 61440
    /\ seg.base = 983040
    /\ segRet.ret = 983040
    /\ seg.limit = SegLimit
    /\ seg.type = ACC.TYPE.SEG + ACC.TYPE.WRITABLE

\* a register holding a non-null selector and a writable expand-up data
\* descriptor
ExpandUpWritable(sg) ==
    /\ BitAnd(sg.sel, SEL.MASK + SEL.LDT) /= 0
    /\ BitAnd(sg.acc, ACC.TYPE.SEG) /= 0
    /\ BitAnd(sg.acc, ACC.TYPE.CODE) = 0
    /\ BitAnd(sg.acc, ACC.TYPE.EXPDOWN) = 0
    /\ BitAnd(sg.acc, ACC.TYPE.WRITABLE) /= 0

\* what C10 expects of a check of cb bytes at the (unsigned) offset off
BoundsChecked(sg, off, cb, fSuppress) ==
    IF off >= 0 /\ off + cb <= sg.limit + 1
    THEN [ret |-> sg.base + off, faults |-> << >>]
    ELSE [ret |-> ADDR_INVALID,
          faults |-> IF fSuppress THEN << >> ELSE << Fault(EXCEPTION.GP_FAULT, 0, FALSE) >>]

\* C10: in protected mode, on a register holding a writable expand-up data
\* segment, checkRead(off, cb) and checkWrite(off, cb) return base + off
\* exactly when off + cb <= limit + 1 (off as an unsigned offset); otherwise
\* they return ADDR_INVALID, and report EXCEPTION.GP_FAULT with error code 0 exactly when
\* fSuppress is not set.
C10_BoundsCheck ==
    (fProtMode /\ ExpandUpWritable(seg)) =>
        \A off \in Offsets32, cb \in Sizes, fSuppress \in BOOLEAN :
            /\ checkRead(seg, off, cb, fSuppress) = BoundsChecked(seg, off, cb, fSuppress)
            /\ checkWrite(seg, off, cb, fSuppress) = BoundsChecked(seg, off, cb, fSuppress)

\* a write of two bytes at the last offset of such a segment, not suppressed:
\* refused, with the fault reported
C10_Witness ==
    /\ fProtMode
    /\ ExpandUpWritable(seg)
    /\ segOp.op = "checkWrite"
    /\ segOp.off = seg.limit
    /\ segOp.cb = 2
    /\ ~segOp.fSuppress
    /\ segRet.ret = ADDR_INVALID
    /\ faults = << Fault(EXCEPTION.GP_FAULT, 0, FALSE) >>

\* a register holding a non-null selector and a writable expand-down data
\* descriptor
ExpandDownWritable(sg) ==
    /\ BitAnd(sg.sel, SEL.MASK + SEL.LDT) /= 0
    /\ BitAnd(sg.acc, ACC.TYPE.SEG) /= 0
    /\ BitAnd(sg.acc, ACC.TYPE.CODE) = 0
    /\ BitAnd(sg.acc, ACC.TYPE.EXPDOWN) /= 0
    /\ BitAnd(sg.acc, ACC.TYPE.WRITABLE) /= 0

\* C11: in protected mode, on a register holding a writable expand-down data
\* segment of limit L, checkWrite(off, cb) succeeds exactly when off > L (off
\* as an unsigned offset), for every offset and for the sizes 1, 2 and 4.
C11_ExpandDown ==
    (fProtMode /\ ExpandDownWritable(seg)) =>
        \A off \in Offsets32, cb \in Sizes, fSuppress \in BOOLEAN :
            (checkWrite(seg, off, cb, fSuppress).ret /= ADDR_INVALID)
                <=> (off < 0 \/ off > seg.limit)

\* a selector that is not null: sel & ~3 /= 0
NonNull(sel) == BitAnd(sel, SEL.MASK + SEL.LDT) /= 0

\* the address of the descriptor a selector names in the tables of the CPU
AddrOf(c, sel) == findDesc(cpuTables(c), sel, TRUE).addrDesc

\* the descriptor at addr is in dmNew what it was in dmOld but for its
\* ACCESSED bit, which is set
Accessed(dmOld, dmNew, addr) ==
    /\ addr \in DOMAIN dmOld
    /\ dmNew[addr] = [dmOld[addr] EXCEPT !.acc = BitOr(@, ACC.TYPE.ACCESSED)]

\* the step is a load of CS that returned a base, for a selector not null
LoadedCS ==
    /\ segOp'.op = "load"
    /\ segRet'.ret /= ADDR_INVALID
    /\ NonNull(segOp'.sel)

\* the selectors loaded into the data and stack registers of the CPU
DataSelectors == {0, GDTSel.DATA3 + 3, GDTSel.STACK0, GDTSel.STACK3 + 3, GDTSel.CODE3 + 3, SEL.LDT + 8 + 3}

\* C12 as stated: after every protected-mode load of CS that succeeds for a
\* selector not null, the descriptor the selector names in the tables has its
\* ACCESSED bit set and is otherwise what it was.
C12_AccessedAtSelector ==
    [][LoadedCS => Accessed(cpu.descMem, cpu'.descMem, AddrOf(cpu, segOp'.sel))]_vars

\* C12, amended: after every protected-mode load that succeeds for a selector
\* not null, the descriptor the register now holds (the one at its addrDesc:
\* the descriptor the selector names, or for a load of CS through a gate the
\* code descriptor the gate or the new task leads to) has its ACCESSED bit set
\* and is otherwise what it was; a gate descriptor is left as it was.
C12_AccessedAtAddrDesc ==
    /\ [][LoadedCS => Accessed(cpu.descMem, cpu'.descMem, cpu'.segCS.addrDesc)]_vars
    /\ [][(LoadedCS /\ cpu'.segCS.addrDesc /= AddrOf(cpu, segOp'.sel)) =>
              cpu'.descMem[AddrOf(cpu, segOp'.sel)] = cpu.descMem[AddrOf(cpu, segOp'.sel)]]_vars
    /\ [](\A r \in {"segDS", "segSS"}, sel \in DataSelectors :
            \E x \in {cpuLoad(cpu, r, sel, FALSE)} :
                (x.ret /= ADDR_INVALID /\ NonNull(sel)) =>
                    /\ x.cpu[r].addrDesc = AddrOf(cpu, sel)
                    /\ Accessed(cpu.descMem, x.cpu.descMem, AddrOf(cpu, sel)))

\* the conforming code segment, whose descriptor had the bit clear, has just
\* been loaded into CS, and its descriptor in memory has the bit set and no
\* other bit changed
C12_Witness ==
    /\ segOp.op = "load"
    /\ segOp.sel = GDTSel.CONF + 3
    /\ segRet.ret /= ADDR_INVALID
    /\ cpu.segCS.addrDesc = addrGDT + GDTSel.CONF
    /\ BitAnd(CpuDescMemory[addrGDT + GDTSel.CONF].acc, ACC.TYPE.ACCESSED) = 0
    /\ Accessed(CpuDescMemory, cpu.descMem, addrGDT + GDTSel.CONF)

\* C13 as stated: in protected mode cpl = sel & 3, in real mode cpl = 0, after
\* any sequence of loads and mode changes.
C13_CplInvariant ==
    /\ fProtMode => seg.cpl = BitAnd(seg.sel, SEL.RPL)
    /\ ~fProtMode => seg.cpl = 0

\* C13, amended: in real mode cpl = 0; in protected mode cpl = sel & 3 once
\* the register has been loaded from a descriptor, and cpl = 0 while it still
\* holds what it had when the CPU entered protected mode (addrDesc invalid),
\* whatever the two low bits of that real-mode selector are.
C13_CplSinceLoad ==
    /\ ~fProtMode => seg.cpl = 0
    /\ (fProtMode /\ seg.addrDesc /= ADDR_INVALID) => seg.cpl = BitAnd(seg.sel, SEL.RPL)
    /\ (fProtMode /\ seg.addrDesc = ADDR_INVALID) => seg.cpl = 0

\* a protected-mode load of a selector with RPL 3 has just succeeded
C13_Witness ==
    /\ fProtMode
    /\ segOp.op = "load"
    /\ segRet.ret /= ADDR_INVALID
    /\ BitAnd(seg.sel, SEL.RPL) = 3
    /\ seg.cpl = 3
    /\ seg.addrDesc /= ADDR_INVALID

\* every check of the register, read or write as asked, is refused
Rejects(slot, sg) ==
    \A off \in Offsets32, cb \in Sizes, fSuppress \in BOOLEAN :
        callCheck(slot, sg, off, cb, fSuppress).ret = ADDR_INVALID

\* C14: after any sequence of loads and mode changes, a register in protected
\* mode refuses every checkRead and checkWrite when its selector is null
\* (sel & ~3 = 0), every checkRead when its descriptor is execute-only code,
\* and every checkWrite when its descriptor is code or data that is not
\* writable; a register in real mode has the real-mode load and checks bound.
C14_SlotsMatchRights ==
    /\ ~fProtMode =>
            /\ seg.load = "loadReal"
            /\ seg.checkRead = "checkReadReal"
            /\ seg.checkWrite = "checkWriteReal"
    /\ fProtMode =>
            /\ seg.load = "loadProt"
            /\ BitAnd(seg.sel, SEL.MASK + SEL.LDT) = 0 =>
                    Rejects(seg.checkRead, seg) /\ Rejects(seg.checkWrite, seg)
            /\ BitAnd(seg.acc, ACC.TYPE.CODE_READABLE) = ACC.TYPE.CODE_EXECONLY =>
                    Rejects(seg.checkRead, seg)
            /\ ( /\ BitAnd(seg.acc, ACC.TYPE.SEG) /= 0
                 /\ \/ BitAnd(seg.acc, ACC.TYPE.CODE) /= 0
                    \/ BitAnd(seg.acc, ACC.TYPE.WRITABLE) = 0 ) =>
                    Rejects(seg.checkWrite, seg)

\* a read has just been refused on a register holding an execute-only code
\* descriptor under a selector that is not null
C14_Witness ==
    /\ fProtMode
    /\ BitAnd(seg.sel, SEL.MASK + SEL.LDT) /= 0
    /\ BitAnd(seg.acc, ACC.TYPE.CODE_READABLE) = ACC.TYPE.CODE_EXECONLY
    /\ segOp.op = "checkRead"
    /\ segOp.off = SegLimit - 1
    /\ segOp.cb = 1
    /\ segRet.ret = ADDR_INVALID

\* the descriptor a selector names in the tables of the CPU is a code segment
IsCode(c, sel) ==
    BitAnd(getDesc(c.descMem, AddrOf(c, sel)).acc, ACC.TYPE.MASK) >= ACC.TYPE.CODE_EXECONLY

\* C15: with fCall = null a load of CS never changes the privilege level: the
\* load of a code selector whose RPL differs from the current CPL returns
\* ADDR_INVALID, and after every load that returns a base CS.cpl is what it
\* was before the load and fStackSwitch is false.
C15_NoPrivilegeChange ==
    [][(segOp'.op = "load" /\ segOp'.fCall = "null") =>
            /\ ( /\ IsCode(cpu, segOp'.sel)
                 /\ BitAnd(segOp'.sel, SEL.RPL) /= cpu.segCS.cpl ) =>
                    segRet'.ret = ADDR_INVALID
            /\ segRet'.ret /= ADDR_INVALID =>
                    /\ cpu'.segCS.cpl = cpu.segCS.cpl
                    /\ ~cpu'.segCS.fStackSwitch]_vars

\* the address of the descriptor the last operation on CS resolved: the one
\* its selector names in the GDT or the LDT, or the one of its vector in the
\* IDT; ADDR_INVALID when it lies outside its table
Resolved(c, op) ==
    IF op.op = "loadIDT"
    THEN IF c.addrIDTLimit - (c.addrIDT + op.sel) >= 7 THEN c.addrIDT + op.sel
         ELSE ADDR_INVALID
    ELSE AddrOf(c, op.sel)

\* the descriptor at addr is a call, an interrupt or a trap gate
IsGate(c, addr) ==
    /\ addr /= ADDR_INVALID
    /\ BitAnd(getDesc(c.descMem, addr).acc, ACC.TYPE.MASK)
            \in {ACC.TYPE.GATE_CALL, ACC.TYPE.GATE_INT, ACC.TYPE.GATE_TRAP}

DplAt(c, addr) == BitAnd(getDesc(c.descMem, addr).acc, ACC.DPL.MASK) \div (2 ^ ACC.DPL.SHIFT)

Max(a, b) == IF a >= b THEN a ELSE b

\* what a load of CS replaces in the register
Loaded(sg) == << sg.sel, sg.base, sg.limit, sg.offMax, sg.acc, sg.type, sg.cpl >>

\* the stack of the CPU: its segment, its pointer and the bytes of memory
Stack(c) == << Loaded(c.segSS), c.regSP, c.mem >>

\* C16: a load of CS through a call, interrupt or trap gate goes ahead only if
\* max(sel.RPL, CPL) <= the DPL of the gate; otherwise it returns
\* ADDR_INVALID, reports EXCEPTION.GP_FAULT for the selector and leaves CS and the
\* stack as they were.
C16_GatePrivilege ==
    [][( /\ segOp'.op \in {"load", "loadIDT"}
         /\ ~segOp'.fSuppress
         /\ IsGate(cpu, Resolved(cpu, segOp'))
         /\ Max(BitAnd(segOp'.sel, SEL.RPL), cpu.segCS.cpl)
                > DplAt(cpu, Resolved(cpu, segOp')) ) =>
            /\ segRet'.ret = ADDR_INVALID
            /\ Len(cpu'.faults) = 1
            /\ cpu'.faults[1].code = EXCEPTION.GP_FAULT
            /\ BitAnd(cpu'.faults[1].err, SEL.MASK) = BitAnd(segOp'.sel, SEL.MASK)
            /\ Loaded(cpu'.segCS) = Loaded(cpu.segCS)
            /\ Stack(cpu') = Stack(cpu)]_vars

\* the selector a gate leads to: the low word of its base
TargetOf(c, addr) == BitAnd(getDesc(c.descMem, addr).base, 65535)

\* the code descriptor the gate at addr leads to has its PRESENT bit clear
TargetAbsent(c, addr) ==
    /\ NonNull(TargetOf(c, addr))
    /\ AddrOf(c, TargetOf(c, addr)) /= ADDR_INVALID
    /\ BitAnd(getDesc(c.descMem, AddrOf(c, TargetOf(c, addr))).acc, ACC.PRESENT) = 0

\* C17: a load of CS through a gate whose privilege test passes and whose
\* target code descriptor has the PRESENT bit clear returns ADDR_INVALID and
\* reports EXCEPTION.NP_FAULT through the fault function.
C17_TargetNotPresent ==
    [][( /\ segOp'.op \in {"load", "loadIDT"}
         /\ ~segOp'.fSuppress
         /\ IsGate(cpu, Resolved(cpu, segOp'))
         /\ Max(BitAnd(segOp'.sel, SEL.RPL), cpu.segCS.cpl)
                <= DplAt(cpu, Resolved(cpu, segOp'))
         /\ TargetAbsent(cpu, Resolved(cpu, segOp')) ) =>
            /\ segRet'.ret = ADDR_INVALID
            /\ \E i \in DOMAIN cpu'.faults : cpu'.faults[i].code = EXCEPTION.NP_FAULT]_vars

\* the descriptor at addr is a call gate, and its count of parameter words
IsCallGate(c, addr) ==
    /\ addr /= ADDR_INVALID
    /\ BitAnd(getDesc(c.descMem, addr).acc, ACC.TYPE.MASK) = ACC.TYPE.GATE_CALL
ParmsOf(c, addr) == BitAnd(getDesc(c.descMem, addr).acc, 31)

\* the i-th word from the top of the stack of the CPU, the top being the first
StackWord(c, i) == getShort(c, c.segSS.base + c.regSP + 2 * (i - 1))

\* the words of the TSS naming the stack of privilege level cpl
StackOf(c, cpl) ==
    [sel |-> getShort(c, c.segTSS.base + cpl * 4 + TSS.CPL0_SP + 2),
     off |-> getShort(c, c.segTSS.base + cpl * 4 + TSS.CPL0_SP)]

\* the step is a call (fCall = true) through the call gate the selector names,
\* to a privilege level numerically lower, that returned a base without a fault
InwardCall ==
    /\ segOp'.op = "load"
    /\ segOp'.fCall = "true"
    /\ IsCallGate(cpu, AddrOf(cpu, segOp'.sel))
    /\ BitAnd(TargetOf(cpu, AddrOf(cpu, segOp'.sel)), SEL.RPL) < cpu.segCS.cpl
    /\ segRet'.ret /= ADDR_INVALID
    /\ cpu'.faults = << >>

\* C18: after a call through a call gate with n parameter words to a privilege
\* level numerically lower, SS is the selector the TSS names for the new level
\* and the stack holds, from the top downward, the n parameters in the order
\* they had on the old stack, then the old SP, then the old SS, below the
\* offset the TSS names; fStackSwitch is set, PS is unchanged, EIP is the offset
\* of the gate and CS.cpl is the new level.
C18_InwardCall ==
    [][InwardCall =>
        \E gate \in {AddrOf(cpu, segOp'.sel)} :
        \E n \in {ParmsOf(cpu, gate)}, cplNew \in {BitAnd(TargetOf(cpu, gate), SEL.RPL)} :
            /\ cpu'.segCS.cpl = cplNew
            /\ cpu'.segSS.sel = StackOf(cpu, cplNew).sel
            /\ cpu'.regSP = StackOf(cpu, cplNew).off - 2 * (n + 2)
            /\ \A i \in 1 .. n : StackWord(cpu', i) = StackWord(cpu, i)
            /\ StackWord(cpu', n + 1) = cpu.regSP
            /\ StackWord(cpu', n + 2) = cpu.segSS.sel
            /\ cpu'.segCS.fStackSwitch
            /\ cpu'.regPS = cpu.regPS
            /\ cpu'.regEIP = getDesc(cpu.descMem, gate).limit]_vars

\* the user code has just called through the call gate with two parameters:
\* CS is at level 0 on the stack of level 0, which holds the two parameters, the
\* user's SP and the user's SS
C18_Witness ==
    /\ segOp.op = "load"
    /\ segOp.fCall = "true"
    /\ segOp.sel = GDTSel.GATE_CALL3 + 3
    /\ segRet.ret /= ADDR_INVALID
    /\ cpu.faults = << >>
    /\ cpu.segCS.cpl = 0
    /\ cpu.segCS.fStackSwitch
    /\ cpu.segSS.sel = GDTSel.STACK0
    /\ cpu.regSP = StackTop - 2 * (GateWords + 2)
    /\ << StackWord(cpu, 1), StackWord(cpu, 2), StackWord(cpu, 3), StackWord(cpu, 4) >>
            = << Parm1, Parm2, UserSP, GDTSel.STACK3 + 3 >>
    /\ cpu.regEIP = GateOffset

\* the descriptor a selector names in the tables
DescOf(dm, sel) ==
    dm[(IF BitAnd(sel, SEL.LDT) /= 0 THEN segLDT.base ELSE addrGDT) + BitAnd(sel, SEL.MASK)]

\* the selectors with a descriptor inside their table
InTable == Selectors \ {8 * 8, SEL.LDT + 16}

\* C19: a load of a DATA register, not suppressed, with a non-null selector
\* whose descriptor is empty (acc = 0) returns ADDR_INVALID and reports
\* EXCEPTION.GP_FAULT for the selector with the fatal flag false; for every other
\* descriptor with S = 0, or with CODE set and READABLE clear, it returns
\* ADDR_INVALID and reports EXCEPTION.GP_FAULT for the selector with the fatal flag true.
C19_EmptyDescriptor ==
    (fProtMode /\ seg.id = ID.DATA) =>
        \A sel \in InTable :
            \E d \in {DescOf(descMem, sel)}, r \in {load(seg, descMem, fProtMode, sel, FALSE)} :
                BitAnd(sel, SEL.MASK + SEL.LDT) /= 0 =>
                    /\ d.acc = 0 =>
                            /\ r.ret = ADDR_INVALID
                            /\ r.faults = << Fault(EXCEPTION.GP_FAULT, sel, FALSE) >>
                    /\ ( /\ d.acc /= 0
                         /\ \/ BitAnd(d.acc, ACC.TYPE.SEG) = 0
                            \/ BitAnd(d.acc, ACC.TYPE.CODE + ACC.TYPE.READABLE) = ACC.TYPE.CODE ) =>
                            /\ r.ret = ADDR_INVALID
                            /\ r.faults = << Fault(EXCEPTION.GP_FAULT, sel, TRUE) >>

\* the tasks of the system, by the selectors of their TSS descriptors
Tasks == {GDTSel.TSS_A, GDTSel.TSS_B}

\* the TSS descriptor a selector names is marked busy in memory
Busy(c, sel) ==
    BitAnd(getDesc(c.descMem, AddrOf(c, sel)).acc, ACC.TYPE.MASK) = ACC.TYPE.TSS_BUSY

\* the base of the TSS a selector names, and the back link kept there
TSSBase(c, sel) ==
    BitOr(getDesc(c.descMem, AddrOf(c, sel)).base,
          BitAnd(getDesc(c.descMem, AddrOf(c, sel)).acc, ACC.BASE1623) * 65536)
BackLink(c, sel) == getShort(c, TSSBase(c, sel) + TSS.PREV_TSS)

\* the nesting chain from the task sel on: the task, and while a task is
\* nested (NT in its flags) the task its back link names; at most k tasks
RECURSIVE ChainFrom(_, _, _, _)
ChainFrom(c, sel, nested, k) ==
    IF k = 0 THEN << >>
    ELSE IF ~nested THEN << sel >>
    ELSE << sel >> \o
         ChainFrom(c, BackLink(c, sel),
                   BitAnd(getShort(c, TSSBase(c, BackLink(c, sel)) + TSS.TASK_PS), PS_NT) /= 0,
                   k - 1)

\* the chain of the running task, whose flags are in PS; one task more than
\* there are shows a task nested in itself
Chain(c) == ChainFrom(c, c.segTSS.sel, BitAnd(c.regPS, PS_NT) /= 0, Cardinality(Tasks) + 1)

\* the chain names no task twice, and exactly the tasks on it are busy
ChainBusy(c) ==
    \E chain \in {Chain(c)} :
        /\ \A i, j \in DOMAIN chain : chain[i] = chain[j] => i = j
        /\ \A t \in Tasks : Busy(c, t) <=> (\E i \in DOMAIN chain : chain[i] = t)

\* the step is switchTSS(selNew, fNest) called directly
Switched(fNest) == segOp'.op = "switchTSS" /\ segOp'.fNest = fNest

\* the step is a nested switch that succeeded, called directly or through a
\* task gate
NestedSwitch ==
    \/ Switched(TRUE) /\ segRet'.ret = TRUE
    \/ /\ segOp'.op \in {"load", "loadIDT"}
       /\ Resolved(cpu, segOp') /= ADDR_INVALID
       /\ BitAnd(getDesc(cpu.descMem, Resolved(cpu, segOp')).acc, ACC.TYPE.MASK)
                = ACC.TYPE.GATE_TASK
       /\ cpu'.segTSS.sel /= cpu.segTSS.sel

\* the step is a return that succeeded: from a nested task to the task its
\* back link names
TaskReturn ==
    /\ Switched(FALSE)
    /\ segRet'.ret = TRUE
    /\ BitAnd(cpu.regPS, PS_NT) /= 0
    /\ segOp'.sel = BackLink(cpu, cpu.segTSS.sel)

\* C20: switchTSS(selNew, false) reports EXCEPTION.TS_FAULT for selNew and fails unless
\* the current TSS is busy, and on success leaves the descriptor of the old
\* TSS not busy; switchTSS(selNew, true) reports EXCEPTION.GP_FAULT for selNew and fails
\* when the descriptor of the new TSS is busy, and on success leaves it busy;
\* if exactly the tasks on the nesting chain are busy, they are so again after
\* a nested switch that succeeds and after a return that succeeds.
C20_BusyProtocol ==
    /\ [][(Switched(FALSE) /\ cpu.segTSS.type /= ACC.TYPE.TSS_BUSY) =>
            /\ segRet'.ret = FALSE
            /\ cpu'.faults = << Fault(EXCEPTION.TS_FAULT, segOp'.sel, TRUE) >>]_vars
    /\ [][(Switched(FALSE) /\ segRet'.ret = TRUE) => ~Busy(cpu', cpu.segTSS.sel)]_vars
    /\ [][(Switched(TRUE) /\ segOp'.sel \in Tasks /\ Busy(cpu, segOp'.sel)) =>
            /\ segRet'.ret = FALSE
            /\ cpu'.faults = << Fault(EXCEPTION.GP_FAULT, segOp'.sel, TRUE) >>]_vars
    /\ [][(Switched(TRUE) /\ segRet'.ret = TRUE) => Busy(cpu', segOp'.sel)]_vars
    /\ [][(ChainBusy(cpu) /\ (NestedSwitch \/ TaskReturn)) => ChainBusy(cpu')]_vars

\* task B, entered from task A by a nested switch, has just returned to A: A is
\* running and busy, B is not busy
C20_Witness ==
    /\ segOp.op = "switchTSS"
    /\ ~segOp.fNest
    /\ segOp.sel = GDTSel.TSS_A
    /\ segOp.n = 2
    /\ segRet.ret = TRUE
    /\ cpu.segTSS.sel = GDTSel.TSS_A
    /\ BackLink(cpu, GDTSel.TSS_B) = GDTSel.TSS_A
    /\ Busy(cpu, GDTSel.TSS_A)
    /\ ~Busy(cpu, GDTSel.TSS_B)
    /\ Chain(cpu) = << GDTSel.TSS_A >>

\* the step is a task switch that succeeded
TaskSwitch == (Switched(TRUE) \/ Switched(FALSE)) /\ segRet'.ret = TRUE

\* the stack of the CPU is the one kept at offSP and offSS of the running TSS
StackFrom(c, offSP, offSS) ==
    /\ c.regSP = getShort(c, c.segTSS.base + offSP)
    /\ c.segSS.sel = getShort(c, c.segTSS.base + offSS)

\* the stack is the one the TSS keeps for the level of the running code
PrivilegedStack(c) ==
    StackFrom(c, c.segCS.cpl * 4 + TSS.CPL0_SP, c.segCS.cpl * 4 + TSS.CPL0_SP + 2)

\* the stack is the one the task was suspended with
TaskStack(c) == StackFrom(c, TSS.TASK_SP, TSS.TASK_SS)

\* C21 as stated: after a task switch SS:SP are those of the new TSS's
\* CPL-indexed fields when the incoming task is less privileged than the
\* outgoing one (its CPL is the greater number), and the task's saved SS and SP
\* otherwise.
C21_StackWhenLessPrivileged ==
    [][TaskSwitch =>
        IF cpu'.segCS.cpl > cpu.segCS.cpl THEN PrivilegedStack(cpu') ELSE TaskStack(cpu')]_vars

\* C21: after a task switch SS:SP are those of the new TSS's CPL-indexed fields
\* when the incoming task is more privileged than the outgoing one (its CPL is
\* the smaller number), and the task's saved SS and SP otherwise.
C21_StackWhenMorePrivileged ==
    [][TaskSwitch =>
        IF cpu'.segCS.cpl < cpu.segCS.cpl THEN PrivilegedStack(cpu') ELSE TaskStack(cpu')]_vars

\* user code of task A has switched to task B, which runs at level 0: the
\* stack is that of level 0 in B's TSS, not the one B was suspended with
C21_Witness ==
    /\ segOp.op = "switchTSS"
    /\ segOp.fNest
    /\ segOp.n = 1
    /\ segRet.ret = TRUE
    /\ cpu.segTSS.sel = GDTSel.TSS_B
    /\ cpu.segCS.cpl = 0
    /\ getShort(cpu, addrTSSA + TSS.TASK_CS) = GDTSel.CODE3 + 3
    /\ PrivilegedStack(cpu)
    /\ ~TaskStack(cpu)

\* the step is a load of CS with fSuppress set
SuppressedLoad == segOp'.op = "load" /\ segOp'.fSuppress

\* the CPU outside the register segCS: the other segment registers, the
\* general registers, the stack pointer, the flags, IP and the MSW
Outside(c) ==
    << c.segSS, c.segDS, c.segES, c.segTSS, c.segLDT, c.regs, c.regSP, c.regPS, c.regEIP,
       c.regCR0 >>

\* C22: a protected-mode load with fSuppress set calls no fault, writes no
\* guest memory (the descriptor tables among it) and changes nothing of the CPU
\* outside the segment register loaded, whatever the selector names, gates and
\* task gates on CS included.
C22_SuppressedLoadFrame ==
    [][SuppressedLoad =>
        /\ cpu'.faults = << >>
        /\ cpu'.mem = cpu.mem
        /\ cpu'.descMem = cpu.descMem
        /\ Outside(cpu') = Outside(cpu)]_vars

\* the fields of the descriptor cache
Cache(sg) ==
    << sg.sel, sg.base, sg.limit, sg.offMax, sg.acc, sg.type, sg.cpl, sg.dpl, sg.addrDesc >>

\* what the register answers to every check
Answers(sg) ==
    [off \in CheckOffsets, cb \in CheckSizes, fSuppress \in BOOLEAN |->
        << checkRead(sg, off, cb, fSuppress), checkWrite(sg, off, cb, fSuppress) >>]

\* C23 as stated: a register on which restore(save()) of a register reachable
\* by loads and mode changes has been applied answers every checkRead and
\* checkWrite, result and fault, as the saved register does, and has the same
\* sel, base, limit, offMax, acc, type, cpl, dpl and addrDesc.
C23_RestoreAlone ==
    segOp.op = "restore" =>
        /\ Cache(segRet.ret) = Cache(seg)
        /\ Answers(segRet.ret) = Answers(seg)

\* C23: restore(save()) gives the register the same sel, base, limit, offMax,
\* acc, type, cpl, dpl and addrDesc as the saved register has, and once
\* updateMode(false, fProt) has been called on it for the mode of the saved
\* machine it answers every checkRead and checkWrite, result and fault, as the
\* saved register does; descriptor memory is not read.
C23_RoundTrip ==
    /\ segOp.op \in {"restore", "restore, updateMode"} => Cache(segRet.ret) = Cache(seg)
    /\ segOp.op = "restore, updateMode" => Answers(segRet.ret) = Answers(seg)

\* an expand-down data segment of a protected-mode machine has been restored
\* and rebound: offsets below its limit are refused, those above it answered
C23_Witness ==
    /\ segOp.op = "restore, updateMode"
    /\ fProtMode
    /\ seg.fExpDown
    /\ segRet.ret.checkRead = "checkReadProtDown"
    /\ checkRead(segRet.ret, 0, 1, TRUE).ret = ADDR_INVALID
    /\ \E off \in CheckOffsets : checkRead(segRet.ret, off, 1, TRUE).ret /= ADDR_INVALID

(***************************************************************************)
(* Properties of the debugger.                                             *)
(***************************************************************************)
\* the first slot of a table that is free: its length when every slot is in use
LowestHole(table) ==
    CHOOSE i \in 0 .. Len(table) :
        At(table, i) = Hole /\ \A j \in 0 .. (i - 1) : At(table, j) /= Hole

\* the trap references of every block index, reads and writes
TrapCounts(bs, ms) ==
    [i \in Indexes |-> << ms[bs[i]].nReadTraps, ms[bs[i]].nWriteTraps >>]

\* the counts with one more reference where addr lies
OneMore(counts, addr, write) ==
    [counts EXCEPT ![addr \div blockSize] =
        IF write THEN << @[1], @[2] + 1 >> ELSE << @[1] + 1, @[2] >>]

SetBreakStep(write) == dbgOp'.op = (IF write THEN "bw" ELSE "br")

\* C24: setBreak puts a new address in the first free slot of its table,
\* appending when no slot is free, and adds one trap reference where the
\* address lies; an address the table holds already, enabled or disabled,
\* changes neither the tables nor any trap count
C24_SetBreakFirstHole ==
    [][\A write \in BOOLEAN :
         SetBreakStep(write) =>
            LET off == dbgOp'.arg
                table == TableOf(dbg, write)
            IN  IF off \in Held(table)
                THEN /\ dbg' = dbg
                     /\ TrapCounts(blocks', mem') = TrapCounts(blocks, mem)
                ELSE /\ TableOf(dbg', write) = Put(table, LowestHole(table), Num(off))
                     /\ TableOf(dbg', ~write) = TableOf(dbg, ~write)
                     /\ TrapCounts(blocks', mem')
                            = OneMore(TrapCounts(blocks, mem), off, write)]_vars

\* a read break address has been set in slot 0 while slot 1 was in use
C24_Witness ==
    /\ dbgOp.op = "br"
    /\ dbgOp.result[1].text = "set"
    /\ dbgOp.result[1].index = 0
    /\ Len(dbg.aBreakReadAddr) = 2
    /\ dbg.aBreakReadAddr[2] /= Hole

\* C25: every index reported when a break address was set still names that
\* break address, in its table, for as long as it is not cleared
C25_HandleStable ==
    \A h \in issued :
        h.by = "b" =>
            /\ fWriteIndex(dbg, h.index) = h.write
            /\ slotAddr(dbg, h.index) /= Hole
            /\ ToUint32(slotAddr(dbg, h.index)) = h.off

\* the enabled addresses of a table
Enabled(table) ==
    {ToUint32(table[i]) : i \in {k \in 1 .. Len(table) : BelowPow32(table[k])}}

EnableStep == dbgOp'.op \in {"bd", "be"} /\ dbgOp'.arg >= 0 /\ slotAddr(dbg, dbgOp'.arg) /= Hole
AccessStep(write) == dbgOp'.op = (IF write THEN "writeData" ELSE "readData")

C29_OneShot ==
    [][(/\ AccessStep(FALSE)
        /\ dbgOp'.stop.stop
        /\ \E h \in issued : h.by = "g" /\ h.off = dbgOp'.arg)
       => /\ dbgOp'.arg \notin Held(dbg'.aBreakReadAddr)
          /\ TrapCounts(blocks, mem)
                = OneMore(TrapCounts(blocks', mem'), dbgOp'.arg, FALSE)]_vars

\* the addresses of the lines a dh has printed
Listed(result) == [k \in 1 .. Len(result) |-> result[k].addr]
Distinct(s) == \A j, k \in 1 .. Len(s) : j /= k => s[j] /= s[k]

\* n instructions executed at distinct addresses since sh on, the history
\* holding them and nothing else, and the CPU about to execute elsewhere
ExecutedOnly ==
    /\ Len(dbg.historyBuffer) /= 0
    /\ Len(executed) > 0
    /\ Distinct(executed)
    /\ Cardinality(Records(dbg)) = Len(executed)
    /\ \A k \in 1 .. Len(executed) : executed[k] /= regPC

\* C28: with history on and n instructions executed at distinct addresses,
\* dh n lists exactly those n instructions, each at its own address, in the
\* order they were executed, and no more lines than n
C28_DumpHistory ==
    [][(dbgOp'.op = "dh" /\ ExecutedOnly /\ dbgOp'.arg = Len(executed))
       => Listed(dbgOp'.result) = executed]_vars

\* C30: every integer from 0 up to 2^nDefaultBits, printed in the default
\* base and parsed back, is the integer itself
C30_ParseRoundTrip ==
    dbgOp.op = "parseExpression" => dbgOp.result[1] = dbgOp.arg

\* C31: truncate(x, n, true) is ((x mod 2^n) + 2^n) mod 2^n for every integer
\* x, negative ones included, and every width n, on each of the three paths
\* n < 32, n = 32 and n > 32
C31_TruncateUnsigned ==
    dbgOp.op = "truncate" =>
        dbgOp.result = ModPow2(dbgOp.arg.v, dbgOp.arg.nBits)

\* the operator that binds loosest in a chain, the last of those of equal
\* precedence
Loosest(ops) ==
    CHOOSE i \in 1 .. Len(ops) :
        /\ \A j \in 1 .. Len(ops) : BINOP_PRECEDENCE[ops[i]] <= BINOP_PRECEDENCE[ops[j]]
        /\ \A j \in (i + 1) .. Len(ops) : BINOP_PRECEDENCE[ops[i]] < BINOP_PRECEDENCE[ops[j]]

\* the reference evaluation: higher precedence binds tighter, equal
\* precedence associates left to right
RECURSIVE Reference(_, _, _)
Reference(d, vals, ops) ==
    IF ops = << >> THEN truncate(d, vals[1], 0, FALSE)
    ELSE LET i == Loosest(ops)
         IN  truncate(d,
                 evalOp(ops[i],
                        Reference(d, SubSeq(vals, 1, i), SubSeq(ops, 1, i - 1)),
                        Reference(d, SubSeq(vals, i + 1, Len(vals)), SubSeq(ops, i + 1, Len(ops)))),
                 0, FALSE)

\* C32: an expression of values and binary operators evaluates to its
\* reference evaluation, for chains of two operators and of three and more
C32_Precedence ==
    dbgOp.op = "p" =>
        dbgOp.result = << Reference(dbg, dbgOp.arg.vals, dbgOp.arg.ops) >>

\* history is enabled
HistoryOn(d) == Len(d.historyBuffer) /= 0

\* the step is a read of the CPU that the debugger's callback saw
TrappedRead == dbgOp'.op = "read" /\ dbgOp'.result /= << >>

\* the addresses recorded since history was enabled lie in the ring in the
\* order recorded, each at its place modulo the length, the oldest overwritten
MostRecent(d, recorded) ==
    LET n == Len(recorded)
        l == Len(d.historyBuffer)
    IN  /\ d.historyNext = n % l
        /\ \A k \in 0 .. (n - 1) :
               k >= n - l => d.historyBuffer[(k % l) + 1] = recorded[k + 1]
        /\ \A k \in n .. (l - 1) : d.historyBuffer[k + 1] = Undefined

ReadStops(addr) ==
    LET r == readData(blocks, mem, addr)
    IN  /\ r.log /= << >>
        /\ checkBusRead(dbg, regPC, r.log[1].addr, r.log[1].value).stop.stop
WriteStops(addr) ==
    LET r == writeData(blocks, mem, addr, 0)
    IN  /\ r.log /= << >>
        /\ checkBusWrite(dbg, r.log[1].addr, r.log[1].value).stop.stop

\* C34: after any sequence of br, bw, bc, bd, be, sh on and sh off the block
\* of every entry of the read (write) break table that is not cleared holds a
\* read (write) trap, and a read (write) of an enabled address stops the clock
C34_BreakTrapped ==
    /\ \A addr \in Held(dbg.aBreakReadAddr) :
           TrapCounts(blocks, mem)[addr \div blockSize][1] > 0
    /\ \A addr \in Held(dbg.aBreadWriteAddr) :
           TrapCounts(blocks, mem)[addr \div blockSize][2] > 0
    /\ \A addr \in Enabled(dbg.aBreakReadAddr) : ReadStops(addr)
    /\ \A addr \in Enabled(dbg.aBreadWriteAddr) : WriteStops(addr)

\* the step is bd or be on a slot that is cleared or was never set
ClearedStep ==
    /\ dbgOp'.op \in {"bd", "be"}
    /\ dbgOp'.arg >= 0
    /\ slotAddr(dbg, dbgOp'.arg) = Hole

\* C35: enableBreak on a slot that is cleared or was never set leaves both
\* break tables as they are, whether it enables or disables
C35_EnableCleared ==
    [][ClearedStep =>
          /\ dbg'.aBreakReadAddr = dbg.aBreakReadAddr
          /\ dbg'.aBreadWriteAddr = dbg.aBreadWriteAddr]_vars

\* C36: a protected-mode load of CS that returns ADDR_INVALID, through a gate
\* or not, leaves sel, base, limit, offMax, acc, type and cpl of CS as they
\* were before the call
C36_AtomicFailure ==
    [][( /\ segOp'.op \in {"load", "loadIDT"}
         /\ segRet'.ret = ADDR_INVALID ) =>
            Loaded(cpu'.segCS) = Loaded(cpu.segCS)]_vars

\* C37: a load of CS with the selector of an ordinary code descriptor, no
\* gate, never leaves CS.cpl lower than it was, whatever the RPL of the
\* selector and whatever fCall
C37_NoGainWithoutGate ==
    [][( /\ segOp'.op = "load"
         /\ AddrOf(cpu, segOp'.sel) /= ADDR_INVALID
         /\ IsCode(cpu, segOp'.sel) ) =>
            cpu'.segCS.cpl >= cpu.segCS.cpl]_vars

\* the 8 bytes of the descriptor a selector names do not all lie within its
\* table: the GDT, or the LDT for a selector with the LDT bit
BeyondTable(sel) ==
    LET fLDT == BitAnd(sel, SEL.LDT) /= 0
        addrDT == IF fLDT THEN Tables.segLDT.base ELSE Tables.addrGDT
        addrDTLimit == IF fLDT THEN addrDT + Tables.segLDT.limit ELSE Tables.addrGDTLimit
    IN  addrDTLimit - (addrDT + BitAnd(sel, SEL.MASK)) < 7

\* C38: a protected-mode load of a selector whose descriptor lies partly or
\* wholly beyond the limit of its table returns ADDR_INVALID, reports
\* GP_FAULT with the selector unless suppressed, and leaves the register and
\* the descriptor tables as they were
C38_TableLimit ==
    [][( /\ segOp'.op = "load"
         /\ seg.load = "loadProt"
         /\ BeyondTable(segOp'.sel) ) =>
            /\ segRet'.ret = ADDR_INVALID
            /\ faults' = IF segOp'.fSuppress THEN << >>
                         ELSE << Fault(EXCEPTION.GP_FAULT, segOp'.sel, FALSE) >>
            /\ seg' = seg
            /\ descMem' = descMem]_vars

\* the callbacks a read (write) of address x invokes
ReadInvokes(bs, ms, x) ==
    LET log == readData(bs, ms, x).log
    IN  {log[i].fn : i \in DOMAIN log}
WriteInvokes(bs, ms, x) ==
    LET log == writeData(bs, ms, x, 0).log
    IN  {log[i].fn : i \in DOMAIN log}

\* C39: trapRead(a, f) and trapWrite(a, f) make f run for accesses within the
\* block of a only: the accesses routed through any other block index invoke
\* after the call what they invoked before it, also when the block of a was
\* never populated
C39_TrapIsolation ==
    [][\A x \in Addrs :
          blockIndex(x) /= blockIndex(busOp'.addr) =>
              /\ busOp'.op = "trapRead" =>
                    ReadInvokes(blocks', mem', x) = ReadInvokes(blocks, mem, x)
              /\ busOp'.op = "trapWrite" =>
                    WriteInvokes(blocks', mem', x) = WriteInvokes(blocks, mem, x)]_vars

\* C40: dumpHistory, once entered, returns, whatever the count and whatever
\* the history holds: disabled, enabled and empty, partly filled, gone round
C40_DumpTerminates == (dbgOp.op = "dh") ~> (dbgOp.op = "dhReturn")

====
